---- MODULE Spec2Model ----
(***************************************************************************)
(* A model of the planner / executor / orchestrator control core and of    *)
(* the booking agent's conversation state machine of agentic-chat-bot.     *)
(*                                                                         *)
(* The module holds several specifications over one set of variables:      *)
(*   SpecPure    the pure plan functions _get_next_step and _validate_plan *)
(*               applied to arbitrary bounded plans                        *)
(*   SpecRouter  RoutingAgent.route on every modelled completion outcome   *)
(*   SpecAgent   the booking agent: turns of BookingAgent.process and the  *)
(*               delayed reset task, over the in-memory state manager      *)
(*   SpecAgentFair  SpecAgent with the delayed reset task eventually run   *)
(*   SpecStateManager  the operations of BookingStateManager called        *)
(*               directly, in any order                                    *)
(*   SpecOrch    turns of EnhancedAgentOrchestrator.process_query: the     *)
(*               graph route_query, create_plan, execute_plan,             *)
(*               handle_unclear with the planners and the executors        *)
(*   SpecService  RestaurantService.find_restaurant_by_name and            *)
(*               find_similar_restaurants on typed names, and the catalog  *)
(*               calls get_all_restaurants and prefetch_restaurants        *)
(*   SpecExecutor  BookingExecutor.execute called directly with the        *)
(*               planner's plans                                           *)
(*   SpecPlanner  one call of BookingPlanner.plan                          *)
(*   SpecSessions  two sessions interleaving state-manager operations,     *)
(*               agent turns and executor calls                            *)
(* Each specification leaves the variables of the others at their initial  *)
(* values.                                                                 *)
(***************************************************************************)
EXTENDS Integers, Sequences, FiniteSets, TLC

(***************************************************************************)
(* Bounds of the model.                                                    *)
(***************************************************************************)
\* step ids that occur in the arbitrary plans of SpecPure
NumIds == 2
\* longest arbitrary plan of SpecPure
MaxSteps == 2
\* times of day the availability calendar offers per date
NumTimes == 6
\* create_booking calls after which no further booking is confirmed
MaxBookings == 1
\* turns of a session that are counted (the counter stops there)
TurnCap == 3

VARIABLES
    \* ---- SpecPure: one arbitrary plan, one completed list, the results
    pPlan,          \* ActionPlan: [plan_id, steps]
    pCompleted,     \* completed_steps: a list of step ids
    pNext,          \* result of _get_next_step (None before the call)
    pValid,         \* result of _validate_plan
    pCalled,        \* which of the two functions have been applied
    \* ---- SpecRouter: one completion outcome, the result of route
    rLlm,           \* what the completion port does for the routing prompt
    rResult,        \* None before the call; then [exc, decision]
    \* ---- SpecAgent: the booking agent's conversation state machine
    local_states,   \* BookingStateManager.local_states: session -> state or None
    local_cache,    \* RestaurantService.local_cache: the cached catalog
    bookings,       \* the number of create_booking calls made so far
    resetTasks,     \* session -> number of _reset_state_delayed tasks pending
    history,        \* session -> the response kinds of the turns since it last had
                    \* no stored state (emptied after TurnCap turns)
    last,           \* the last event: a turn (session, step before, input, response,
                    \* calls) or a delayed reset
    \* ---- SpecOrch: the orchestrator's graph, the planners, the executors
    execution_context,  \* BookingExecutor.execution_context: session -> context or None
    oState,         \* the AgentState of the turn in progress (None between turns),
                    \* with the node to run next and the stages that have run
    oResult         \* session -> what its last process_query returned, or None

pureVars == <<pPlan, pCompleted, pNext, pValid, pCalled>>
routerVars == <<rLlm, rResult>>
agentVars == <<local_states, local_cache, bookings, resetTasks, history, last>>
orchVars == <<execution_context, oState, oResult>>
vars == <<pPlan, pCompleted, pNext, pValid, pCalled, rLlm, rResult,
          local_states, local_cache, bookings, resetTasks, history, last,
          execution_context, oState, oResult>>

(***************************************************************************)
(* Helpers.                                                                *)
(***************************************************************************)
\* Python's None
None == [none |-> TRUE]

Range(s) == {s[i] : i \in 1..Len(s)}

\* the elements of a finite set of integers as a list in increasing order
RECURSIVE SetToSeq(_)
SetToSeq(S) ==
    IF S = {} THEN <<>>
    ELSE LET m == CHOOSE x \in S : \A y \in S : x <= y
         IN <<m>> \o SetToSeq(S \ {m})

\* all lists over S of length at most n
SeqsUpTo(S, n) == UNION {[1..k -> S] : k \in 0..n}

\* the sessions of the model
Sessions == {"s1"}

\* the values the variables of a part have in the specifications of the
\* other parts
PureIdle ==
    /\ pPlan = [plan_id |-> 0, steps |-> <<>>]
    /\ pCompleted = <<>>
    /\ pNext = None
    /\ pValid = FALSE
    /\ pCalled = {}

RouterIdle ==
    /\ rLlm = None
    /\ rResult = None

AgentIdle ==
    /\ local_states = [s \in Sessions |-> None]
    /\ local_cache = <<>>
    /\ bookings = 0
    /\ resetTasks = [s \in Sessions |-> 0]
    /\ history = [s \in Sessions |-> <<>>]
    /\ last = None

OrchIdle ==
    /\ execution_context = [s \in Sessions |-> None]
    /\ oState = None
    /\ oResult = [s \in Sessions |-> None]

(***************************************************************************)
(* BaseExecutor._get_next_step: scan plan.steps in order, skip completed   *)
(* steps, return the first step whose dependencies are all completed.      *)
(***************************************************************************)
RECURSIVE ScanNextStep(_, _, _)
ScanNextStep(steps, completed_set, i) ==
    IF i > Len(steps) THEN None
    ELSE IF steps[i].step_id \in completed_set
         THEN ScanNextStep(steps, completed_set, i + 1)
         ELSE IF \A dep \in steps[i].dependencies : dep \in completed_set
              THEN steps[i]
              ELSE ScanNextStep(steps, completed_set, i + 1)

\* a slip: the dependency test is dropped
GetNextStepNoDeps(plan, completed_steps) ==
    LET todo == {i \in 1..Len(plan.steps) :
                    plan.steps[i].step_id \notin Range(completed_steps)}
    IN IF todo = {} THEN None
       ELSE plan.steps[CHOOSE i \in todo : \A j \in todo : i <= j]

_get_next_step(plan, completed_steps) ==
    ScanNextStep(plan.steps, Range(completed_steps), 1)

\* BaseExecutor._is_plan_complete
_is_plan_complete(plan, completed_steps) ==
    Len(completed_steps) = Len(plan.steps)

(***************************************************************************)
(* BasePlanner._validate_plan: false for a plan without steps, false when  *)
(* a dependency names no step of the plan, true otherwise.                 *)
(***************************************************************************)
\* a slip: only the first step's dependencies are looked at
ValidatePlanFirstOnly(plan) ==
    IF Len(plan.steps) = 0 THEN FALSE
    ELSE LET step_ids == {plan.steps[i].step_id : i \in 1..Len(plan.steps)}
         IN \A dep \in plan.steps[1].dependencies : dep \in step_ids

_validate_plan(plan) ==
    IF Len(plan.steps) = 0 THEN FALSE
    ELSE LET step_ids == {plan.steps[i].step_id : i \in 1..Len(plan.steps)}
         IN \A i \in 1..Len(plan.steps) :
                \A dep \in plan.steps[i].dependencies : dep \in step_ids

(***************************************************************************)
(* SpecPure: the two functions on every plan of at most MaxSteps steps     *)
(* over NumIds step ids (ids may repeat, dependencies may dangle or form   *)
(* cycles) and every completed list over those ids.                        *)
(***************************************************************************)
PureIds == 1..NumIds

PureSteps == [step_id : PureIds, dependencies : SUBSET PureIds]

PureInit ==
    /\ RouterIdle
    /\ AgentIdle
    /\ OrchIdle
    /\ \E steps \in SeqsUpTo(PureSteps, MaxSteps) :
           pPlan = [plan_id |-> 0, steps |-> steps]
    /\ \E done \in SUBSET PureIds : pCompleted = SetToSeq(done)
    /\ pNext = None
    /\ pValid = FALSE
    /\ pCalled = {}

CallGetNextStep ==
    /\ "next" \notin pCalled
    /\ pNext' = _get_next_step(pPlan, pCompleted)
    /\ pCalled' = pCalled \cup {"next"}
    /\ UNCHANGED <<pPlan, pCompleted, pValid>>
    /\ UNCHANGED <<routerVars, agentVars, orchVars>>

CallValidatePlan ==
    /\ "valid" \notin pCalled
    /\ pValid' = _validate_plan(pPlan)
    /\ pCalled' = pCalled \cup {"valid"}
    /\ UNCHANGED <<pPlan, pCompleted, pNext>>
    /\ UNCHANGED <<routerVars, agentVars, orchVars>>

PureNext ==
    \/ CallGetNextStep
    \/ CallValidatePlan

SpecPure == PureInit /\ [][PureNext]_vars

(***************************************************************************)
(* Claims about the pure plan functions (SpecPure).                        *)
(***************************************************************************)
\* the positions of the steps that are eligible: not completed, and every
\* dependency completed
EligibleAt(plan, completed_steps) ==
    {i \in 1..Len(plan.steps) :
        /\ plan.steps[i].step_id \notin Range(completed_steps)
        /\ plan.steps[i].dependencies \subseteq Range(completed_steps)}

\* C3: _get_next_step returns the first step in plan order that is not
\* completed and whose dependencies are all completed, and None when there
\* is no such step.
C3_NextStepIsFirstEligible ==
    "next" \in pCalled =>
        LET E == EligibleAt(pPlan, pCompleted)
        IN IF E = {} THEN pNext = None
           ELSE /\ pNext # None
                /\ pNext = pPlan.steps[CHOOSE i \in E : \A j \in E : i <= j]

\* C3 witness: with nothing completed the call skipped a first step that has
\* a dependency and returned a later step that has none.
C3_Witness ==
    /\ "next" \in pCalled
    /\ pCompleted = <<>>
    /\ Len(pPlan.steps) = 2
    /\ pPlan.steps[1].dependencies # {}
    /\ pPlan.steps[2].dependencies = {}
    /\ pNext = pPlan.steps[2]

\* C4: _validate_plan is true exactly for a plan with at least one step all
\* of whose dependencies name a step of the plan.
C4_ValidIffResolvable ==
    "valid" \in pCalled =>
        (pValid <=>
            /\ Len(pPlan.steps) >= 1
            /\ \A i \in 1..Len(pPlan.steps) :
                   \A dep \in pPlan.steps[i].dependencies :
                       \E j \in 1..Len(pPlan.steps) : pPlan.steps[j].step_id = dep)

\* C4 witness: a plan whose second step has a dangling dependency was
\* rejected.
C4_Witness ==
    /\ "valid" \in pCalled
    /\ Len(pPlan.steps) = 2
    /\ pPlan.steps[1].dependencies = {}
    /\ \E dep \in pPlan.steps[2].dependencies :
           \A j \in 1..2 : pPlan.steps[j].step_id # dep
    /\ pValid = FALSE

\* C5: for a plan that passes _validate_plan, _get_next_step returns None
\* only when every step of the plan is completed.
C5_NoneOnlyWhenComplete ==
    ("next" \in pCalled /\ _validate_plan(pPlan) /\ pNext = None) =>
        \A i \in 1..Len(pPlan.steps) : pPlan.steps[i].step_id \in Range(pCompleted)

(***************************************************************************)
(* The Router (app/agents/routing_agent.py).                               *)
(*                                                                         *)
(* A completion text is modelled by what the parser can observe of it:     *)
(*   fence     the Markdown fence it is wrapped in                         *)
(*   json      whether the text inside the fence is not JSON, JSON that is *)
(*             no object, or a JSON object                                 *)
(*   domain, confidence, fields   the object's members (json = "object")   *)
(*   mentions  the domain names occurring in the text outside the domain   *)
(*             member                                                      *)
(*   kw        the keyword lists of the fallback that have a word in the   *)
(*             text                                                        *)
(* Confidences are in hundredths: 0.7 is 70.                               *)
(***************************************************************************)
Domains == <<"booking", "properties", "education">>

DomainSet == Range(Domains)

\* the exception kinds the model distinguishes
NoExc == "none"

\* values of the "domain" member: absent, a non-string (a number, null), or
\* a string
DomainMembers ==
    {[kind |-> "absent"], [kind |-> "nonstring"]}
    \cup [kind : {"str"},
          s : {"booking", "properties", "education", "unclear", "BOOKING", "weather"}]

\* values of the "confidence" member: absent, a number (possibly NaN), a
\* numeric or non-numeric string, null or a list
ConfidenceMembers ==
    {[kind |-> "absent"], [kind |-> "nan"], [kind |-> "text"],
     [kind |-> "null"], [kind |-> "list"]}
    \cup [kind : {"num", "numstr"}, v : {-50, 0, 50, 100, 150}]

RouterTexts ==
    [fence : {"none", "json", "plain"}, json : {"invalid", "nonobject"},
     mentions : SUBSET DomainSet, kw : SUBSET DomainSet]
    \cup
    [fence : {"none", "json", "plain"}, json : {"object"},
     domain : DomainMembers, confidence : ConfidenceMembers,
     \* whether reasoning, is_multi_domain, domains and
     \* requires_clarification pass RoutingDecision's field validation
     fields_valid : BOOLEAN,
     requires_clarification : BOOLEAN,
     mentions : SUBSET DomainSet, kw : {{}, {"booking"}, {"education"}}]

\* the completion port either fails or returns a text
RouterLlmOutcomes == {[fail |-> TRUE]} \cup [fail : {FALSE}, text : RouterTexts]

\* str.lower on the modelled strings
Lower(s) == IF s = "BOOKING" THEN "booking" ELSE s

\* `domain in response_lower`: the domain name occurs somewhere in the text
TextContains(text, domain) ==
    \/ domain \in text.mentions
    \/ /\ text.json = "object"
       /\ text.domain.kind = "str"
       /\ Lower(text.domain.s) = domain

\* Python's min(a, b) / max(a, b) on floats: b replaces a only when the
\* comparison b < a (b > a) is true, and every comparison with NaN is false
PyMin(a, b) == IF a.kind # "nan" /\ b.kind # "nan" /\ b.v < a.v THEN b ELSE a
PyMax(a, b) == IF a.kind # "nan" /\ b.kind # "nan" /\ b.v > a.v THEN b ELSE a
Num(n) == [kind |-> "num", v |-> n]

\* a slip: the confidence is not clamped
ClampNone(c) == c

\* confidence = max(0.0, min(1.0, confidence))
Clamp(c) == PyMax(Num(0), PyMin(Num(100), c))

RoutingDecision(domain, confidence, requires_clarification) ==
    [domain |-> domain, confidence |-> confidence,
     requires_clarification |-> requires_clarification]

UnclearDecision == RoutingDecision("unclear", 0, TRUE)

\* the first domain of self.domains (in order) that the text contains, or 0
FirstMentioned(text) ==
    LET hit == {i \in 1..Len(Domains) : TextContains(text, Domains[i])}
    IN IF hit = {} THEN 0 ELSE CHOOSE i \in hit : \A j \in hit : i <= j

\* the except branch of _parse_routing_response: domain names, then the
\* keyword lists, then unclear
ParseFallback(text) ==
    IF FirstMentioned(text) # 0
    THEN RoutingDecision(Domains[FirstMentioned(text)], 70, FALSE)
    ELSE IF "booking" \in text.kw THEN RoutingDecision("booking", 80, FALSE)
    ELSE IF "properties" \in text.kw THEN RoutingDecision("properties", 80, FALSE)
    ELSE IF "education" \in text.kw THEN RoutingDecision("education", 80, FALSE)
    ELSE UnclearDecision

\* the try branch of _parse_routing_response on a JSON object: the
\* exception it raises ("none" when it returns) and the decision
ParseObject(text) ==
    IF text.domain.kind = "nonstring"
    THEN [exc |-> "AttributeError"]                 \* .lower() of a non-string
    ELSE
    LET domain0 == IF text.domain.kind = "absent" THEN "unclear"
                   ELSE Lower(text.domain.s)
        domain == IF domain0 \in DomainSet \cup {"unclear"} THEN domain0
                  ELSE "unclear"
        c == text.confidence
    IN  IF c.kind \in {"null", "list"} THEN [exc |-> "TypeError"]     \* float(None)
        ELSE IF c.kind = "text" THEN [exc |-> "ValueError"]          \* float("high")
        ELSE
        LET conf0 == IF c.kind = "absent" THEN Num(50)
                     ELSE IF c.kind = "nan" THEN c
                     ELSE Num(c.v)
            conf == Clamp(conf0)
        IN  \* RoutingDecision(...) validates its fields; pydantic's
            \* ValidationError is a ValueError
            IF ~text.fields_valid \/ conf.kind = "nan" \/ conf.v < 0 \/ conf.v > 100
            THEN [exc |-> "ValueError"]
            ELSE [exc |-> NoExc,
                  decision |-> RoutingDecision(domain, conf.v,
                                               text.requires_clarification)]

\* RoutingAgent._parse_routing_response: strip the fences, json.loads, build
\* the decision; JSONDecodeError and ValueError go to the text fallback, any
\* other exception leaves the function
_parse_routing_response(text) ==
    IF text.json = "invalid"
    THEN [exc |-> NoExc, decision |-> ParseFallback(text)]
    ELSE IF text.json = "nonobject"
    THEN [exc |-> "AttributeError"]                     \* data.get on a non-dict
    ELSE LET r == ParseObject(text)
         IN IF r.exc = "ValueError"
            THEN [exc |-> NoExc, decision |-> ParseFallback(text)]
            ELSE r

\* a slip: route catches nothing
RouteNoCatch(llm) ==
    IF llm.fail THEN [exc |-> "LLMError"] ELSE _parse_routing_response(llm.text)

\* RoutingAgent.route: every exception of the completion call or of the
\* parser becomes the unclear decision
route(llm) ==
    IF llm.fail THEN [exc |-> NoExc, decision |-> UnclearDecision]
    ELSE LET r == _parse_routing_response(llm.text)
         IN IF r.exc # NoExc THEN [exc |-> NoExc, decision |-> UnclearDecision]
            ELSE r

(***************************************************************************)
(* SpecRouter: route on every modelled completion outcome.                 *)
(***************************************************************************)
RouterInit ==
    /\ PureIdle
    /\ AgentIdle
    /\ OrchIdle
    /\ rLlm \in RouterLlmOutcomes
    /\ rResult = None

CallRoute ==
    /\ rResult = None
    /\ rResult' = route(rLlm)
    /\ UNCHANGED rLlm
    /\ UNCHANGED <<pureVars, agentVars, orchVars>>

RouterNext == CallRoute

SpecRouter == RouterInit /\ [][RouterNext]_vars

(***************************************************************************)
(* Claims about the Router (SpecRouter).                                   *)
(***************************************************************************)
\* the text cannot be turned into a decision: it parses to a non-object, or
\* to an object with a non-string domain or a confidence float() rejects
\* with a TypeError; or it is no usable JSON decision and names no domain
\* and no keyword
RouterUndecidable(text) ==
    \/ text.json = "nonobject"
    \/ /\ text.json = "object"
       /\ \/ text.domain.kind = "nonstring"
          \/ text.domain.kind # "nonstring" /\ text.confidence.kind \in {"null", "list"}
    \/ /\ \/ text.json = "invalid"
          \/ /\ text.json = "object"
             /\ text.domain.kind # "nonstring"
             /\ \/ text.confidence.kind = "text"
                \/ text.confidence.kind \notin {"null", "list"} /\ ~text.fields_valid
       /\ \A d \in DomainSet : ~TextContains(text, d)
       /\ text.kw = {}

\* C9: route never lets an exception out, and a failed completion call or
\* a text that cannot be turned into a decision gives domain unclear,
\* confidence 0 and requires_clarification true.
C9_RouteNeverRaises ==
    rResult # None =>
        /\ rResult.exc = NoExc
        /\ (rLlm.fail \/ (~rLlm.fail /\ RouterUndecidable(rLlm.text)))
              => rResult.decision = UnclearDecision

\* C9 witness: a JSON object with a non-string domain, whose text names a
\* domain, was routed to unclear.
C9_Witness ==
    /\ rResult # None
    /\ ~rLlm.fail
    /\ rLlm.text.json = "object"
    /\ rLlm.text.domain.kind = "nonstring"
    /\ "booking" \in rLlm.text.mentions
    /\ rResult.exc = NoExc
    /\ rResult.decision = UnclearDecision

\* C10: every decision route returns has a catalog domain or unclear and a
\* confidence within [0, 1]; an out-of-catalog domain becomes unclear and an
\* out-of-range confidence the nearest bound.
C10_DecisionInRange ==
    (rResult # None /\ rResult.exc = NoExc) =>
        /\ rResult.decision.domain \in DomainSet \cup {"unclear"}
        /\ rResult.decision.confidence >= 0
        /\ rResult.decision.confidence <= 100
        /\ (/\ ~rLlm.fail
            /\ rLlm.text.json = "object"
            /\ rLlm.text.fields_valid
            /\ rLlm.text.domain.kind = "str"
            /\ rLlm.text.confidence.kind \in {"num", "numstr"})
           => /\ rResult.decision.domain =
                    (IF Lower(rLlm.text.domain.s) \in DomainSet
                     THEN Lower(rLlm.text.domain.s) ELSE "unclear")
              /\ rResult.decision.confidence =
                    (IF rLlm.text.confidence.v < 0 THEN 0
                     ELSE IF rLlm.text.confidence.v > 100 THEN 100
                     ELSE rLlm.text.confidence.v)

\* C10 witness: a parsed decision with domain "weather" and confidence 1.5
\* came back as unclear with confidence 1.
C10_Witness ==
    /\ rResult # None
    /\ ~rLlm.fail
    /\ rLlm.text.json = "object"
    /\ rLlm.text.fields_valid
    /\ rLlm.text.domain = [kind |-> "str", s |-> "weather"]
    /\ rLlm.text.confidence = [kind |-> "num", v |-> 150]
    /\ rResult.exc = NoExc
    /\ rResult.decision.domain = "unclear"
    /\ rResult.decision.confidence = 100

\* C11: whenever the completion text is not parseable JSON and contains
\* "restaurant" (a word of the booking keyword list), the decision is domain
\* booking with confidence 0.8 and no clarification, never unclear.
C11_RestaurantFallback ==
    (/\ rResult # None
     /\ ~rLlm.fail
     /\ rLlm.text.json = "invalid"
     /\ "booking" \in rLlm.text.kw)
    => /\ rResult.exc = NoExc
       /\ rResult.decision = RoutingDecision("booking", 80, FALSE)

(***************************************************************************)
(* The booking domain: data model, state manager, restaurant service.      *)
(* (app/agents/booking/models.py, state_manager.py, restaurant_service.py, *)
(*  api_client.py), in the default in-memory (development) configuration.  *)
(***************************************************************************)
\* a value of an Optional field that is set
Some(v) == [some |-> v]

\* BookingState.step: the enumerated values
StepValues ==
    {"initial", "restaurant_selection", "restaurant_confirmation",
     "availability_check", "date_time_selection", "collecting_guest_count",
     "collecting_name", "collecting_email", "collecting_phone",
     "confirmation", "completed"}

\* BookingState(session_id=...): step initial, every other field unset
BookingState(session_id) ==
    [session_id |-> session_id, step |-> "initial",
     restaurant_id |-> None, restaurant_name |-> None, fuzzy_matches |-> None,
     available_slots |-> None,
     selected_date |-> None, selected_time |-> None, guest_count |-> None,
     user_name |-> None, email |-> None, phone |-> None,
     confirmation_number |-> None]

\* the catalog the data service returns when the fetch succeeds
Catalog == <<[id |-> "r1", name |-> "Ocean Grill"],
             [id |-> "r2", name |-> "Oceanview Bistro"]>>

\* dates the availability calendar covers
NumDays == 1

Dates == 1..NumDays

Times == 1..NumTimes

\* the calendar of check_availability in its order: dates, then times
SlotOrder == [i \in 1..(NumDays * NumTimes) |->
                 [date |-> ((i - 1) \div NumTimes) + 1,
                  time |-> ((i - 1) % NumTimes) + 1]]

RECURSIVE FilterSeq(_, _)
FilterSeq(seq, keep) ==
    IF seq = <<>> THEN <<>>
    ELSE (IF Head(seq) \in keep THEN <<Head(seq)>> ELSE <<>>)
         \o FilterSeq(Tail(seq), keep)

(* A turn works on a world w: the session's stored state (None when the    *)
(* session has no entry in local_states), the catalog cache, the number of *)
(* fetches that will still fail in this turn, the number of bookings made  *)
(* before the turn, the create_booking calls of the turn and the session's *)
(* pending reset tasks.                                                    *)
World(st, cache, fails, made, calls, tasks) ==
    [st |-> st, cache |-> cache, fails |-> fails, made |-> made, calls |-> calls,
     tasks |-> tasks]

\* BookingStateManager.get_state (in-memory): the stored state, or a fresh
\* one that is not stored
get_state(w, session_id) ==
    IF w.st # None THEN w.st ELSE BookingState(session_id)

\* BookingStateManager.update_state: get the state, set the given fields,
\* store it
update_state(w, session_id, updates) ==
    LET state == get_state(w, session_id)
    IN [w EXCEPT !.st = [k \in DOMAIN state |->
                            IF k \in DOMAIN updates THEN updates[k] ELSE state[k]]]

\* a slip: the session's entry is kept
ResetStateKeepsEntry(w, session_id) == w

\* a slip: reset_state only puts the stored state back to the initial step
ResetStateStepOnly(w, session_id) ==
    IF w.st = None THEN w ELSE [w EXCEPT !.st.step = "initial"]

\* BookingStateManager.reset_state: delete the session's entry
reset_state(w, session_id) == [w EXCEPT !.st = None]

\* RestaurantService.prefetch_restaurants: fetch and cache; [] on failure
prefetch_restaurants(w) ==
    IF w.fails > 0
    THEN [w |-> [w EXCEPT !.fails = w.fails - 1], restaurants |-> <<>>]
    ELSE [w |-> [w EXCEPT !.cache = Catalog], restaurants |-> Catalog]

\* a slip: get_all_restaurants fetches on every call
GetAllRestaurantsAlwaysFetch(w) == prefetch_restaurants(w)

\* RestaurantService.get_all_restaurants (in-memory): the cache, fetched
\* inline when it is empty
get_all_restaurants(w) ==
    IF w.cache = <<>> THEN prefetch_restaurants(w)
    ELSE [w |-> w, restaurants |-> w.cache]

\* RestaurantService.get_restaurant_by_id
get_restaurant_by_id(w, restaurant_id) ==
    LET g == get_all_restaurants(w)
        hit == {i \in 1..Len(g.restaurants) : Some(g.restaurants[i].id) = restaurant_id}
    IN [w |-> g.w,
        restaurant |-> IF hit = {} THEN None
                       ELSE g.restaurants[CHOOSE i \in hit : \A j \in hit : i <= j]]

(* Fuzzy matching.  A name typed by the user is modelled by its similarity *)
(* score (fuzz.ratio, 0..100) against each catalog name.                   *)
ScoreLevels == {50, 65, 72, 80}

NameScores == [1..Len(Catalog) -> ScoreLevels]

\* positions of the restaurants by descending score, ties in catalog order
RECURSIVE Ranked(_, _)
Ranked(scores, left) ==
    IF left = {} THEN <<>>
    ELSE LET b == CHOOSE i \in left :
                     \A j \in left : \/ scores[i] > scores[j]
                                     \/ scores[i] = scores[j] /\ i <= j
         IN <<b>> \o Ranked(scores, left \ {b})

\* a slip: the first restaurant reaching the threshold is returned, not the
\* best one
FindRestaurantByNameFirst(w, scores, threshold) ==
    LET g == get_all_restaurants(w)
        hits == {i \in 1..Len(g.restaurants) : scores[i] >= threshold}
    IN [w |-> g.w,
        restaurant |-> IF hits = {} THEN None
                       ELSE g.restaurants[CHOOSE i \in hits : \A j \in hits : i <= j]]

\* RestaurantService.find_restaurant_by_name: process.extractOne, kept when
\* its score reaches the threshold
find_restaurant_by_name(w, scores, threshold) ==
    LET g == get_all_restaurants(w)
    IN IF g.restaurants = <<>> THEN [w |-> g.w, restaurant |-> None]
       ELSE LET best == Ranked(scores, 1..Len(g.restaurants))[1]
            IN [w |-> g.w,
                restaurant |-> IF scores[best] >= threshold
                               THEN g.restaurants[best] ELSE None]

\* RestaurantService.find_similar_restaurants: process.extract with a
\* limit, then the threshold filter
find_similar_restaurants(w, scores, limit, threshold) ==
    LET g == get_all_restaurants(w)
    IN IF g.restaurants = <<>> THEN [w |-> g.w, matches |-> <<>>]
       ELSE LET ranked == Ranked(scores, 1..Len(g.restaurants))
                top == SubSeq(ranked, 1, IF Len(ranked) < limit THEN Len(ranked) ELSE limit)
                kept == FilterSeq(top, {i \in 1..Len(g.restaurants) : scores[i] >= threshold})
            IN [w |-> g.w,
                matches |-> [k \in 1..Len(kept) |-> g.restaurants[kept[k]]]]

\* models.BookingRequest(...): the fields are required, and email is an
\* EmailStr, which rejects some addresses the agent's regex accepts
BookingRequestValid(state) ==
    /\ \A f \in {"restaurant_id", "restaurant_name", "selected_date", "selected_time",
                 "guest_count", "user_name", "email", "phone"} : state[f] # None
    /\ state.email # Some("regex_only")

\* the request create_booking is called with
BookingRequest(state) ==
    [restaurant_id |-> state.restaurant_id, restaurant_name |-> state.restaurant_name,
     date |-> state.selected_date, time |-> state.selected_time,
     guest_count |-> state.guest_count, user_name |-> state.user_name,
     email |-> state.email, phone |-> state.phone]

\* RestaurantAPIClient.create_booking: a confirmation with a new number
create_booking(w, session_id, booking_request) ==
    [w |-> [w EXCEPT !.calls = Append(w.calls, booking_request)],
     confirmation_number |-> Some(w.made + Len(w.calls) + 1)]

\* AgentResponse, reduced to what identifies the branch (the metadata's
\* intent or error) and requires_followup
AgentResponse(kind, requires_followup) ==
    [kind |-> kind, requires_followup |-> requires_followup]

\* what a handler returns: the world, the response, the exception raised
Returned(w, resp) == [w |-> w, resp |-> resp, exc |-> NoExc]
Raised(w, exc) == [w |-> w, resp |-> None, exc |-> exc]

(***************************************************************************)
(* The booking agent (app/agents/booking/booking_agent.py).                *)
(*                                                                         *)
(* A user query is modelled by what the handler of the current step reads  *)
(* from it (and by what the completion port extracts from it):             *)
(*   initial                  name: None, or Some(scores) for the name the *)
(*                            completion port extracted                    *)
(*   restaurant_selection     digits: Some(n) when the query is a number,  *)
(*                            scores: the query's fuzzy scores             *)
(*   restaurant_confirmation, confirmation                                 *)
(*                            yes / no: a keyword of the step's yes / no   *)
(*                            list occurs in the query                     *)
(*   date_time_selection      extracted: what _extract_datetime returns    *)
(*   collecting_guest_count   number: the first number in the query        *)
(*   collecting_name          name: the stripped text and its length       *)
(*   collecting_email         email: "bad" fails the agent's regex, "ok"   *)
(*                            passes it, "regex_only" passes it but is no  *)
(*                            valid EmailStr (e.g. "a@b..com")             *)
(*   collecting_phone         phone: "bad" or "ok"                         *)
(* avail is the set of slots check_availability reports as available.      *)
(***************************************************************************)
\* check_availability: every slot of the calendar with its available flag
check_availability(avail) ==
    [i \in 1..Len(SlotOrder) |->
        [date |-> SlotOrder[i].date, time |-> SlotOrder[i].time,
         available |-> SlotOrder[i] \in avail]]

IsAvailable(slot) == slot.available

\* BookingAgent._list_all_restaurants
_list_all_restaurants(w, sid) ==
    LET g == get_all_restaurants(w)
    IN IF g.restaurants = <<>>
       THEN Returned(g.w, AgentResponse("no_restaurants", FALSE))
       ELSE Returned(update_state(g.w, sid, [step |-> "restaurant_selection"]),
                     AgentResponse("restaurant_list", TRUE))

\* a slip: the direct match uses the selection threshold 70
HandleSpecificRestaurantAt70(w, sid, scores) ==
    LET m == find_restaurant_by_name(w, scores, 70)
    IN IF m.restaurant # None
       THEN Returned(update_state(m.w, sid,
                        [step |-> "restaurant_confirmation",
                         restaurant_id |-> Some(m.restaurant.id),
                         restaurant_name |-> Some(m.restaurant.name)]),
                     AgentResponse("restaurant_confirmation", TRUE))
       ELSE _list_all_restaurants(m.w, sid)

\* BookingAgent._handle_specific_restaurant
_handle_specific_restaurant(w, sid, scores) ==
    LET m == find_restaurant_by_name(w, scores, 75)
    IN IF m.restaurant # None
       THEN Returned(update_state(m.w, sid,
                        [step |-> "restaurant_confirmation",
                         restaurant_id |-> Some(m.restaurant.id),
                         restaurant_name |-> Some(m.restaurant.name)]),
                     AgentResponse("restaurant_confirmation", TRUE))
       ELSE LET sim == find_similar_restaurants(m.w, scores, 3, 60)
            IN IF sim.matches # <<>>
               THEN Returned(update_state(sim.w, sid,
                                [step |-> "restaurant_selection",
                                 fuzzy_matches |-> Some(sim.matches)]),
                             AgentResponse("restaurant_selection", TRUE))
               ELSE _list_all_restaurants(sim.w, sid)

\* BookingAgent._handle_initial_request (with _extract_restaurant_name)
_handle_initial_request(w, sid, input) ==
    IF input.name # None
    THEN _handle_specific_restaurant(w, sid, input.name.some)
    ELSE _list_all_restaurants(w, sid)

\* the limits of the availability message: available_slots[:21], the first
\* 3 dates, times[:5] of each
SlotsListed == 21
DatesListed == 3
TimesListed == 5

\* the (date, time) pairs the availability message of
\* _proceed_with_restaurant names: slots_by_date groups the first 21 stored
\* slots by date in order of appearance; the message lists the first 3
\* dates with the first 5 times of each
ShownSlots(available_slots) ==
    LET n == IF Len(available_slots) < SlotsListed THEN Len(available_slots)
             ELSE SlotsListed
        FirstAt(d) == CHOOSE i \in 1..n :
                          /\ available_slots[i].date = d
                          /\ \A j \in 1..(i - 1) : available_slots[j].date # d
        DatesBefore(i) == {available_slots[j].date : j \in 1..(FirstAt(available_slots[i].date) - 1)}
        TimesBefore(i) == {j \in 1..(i - 1) : available_slots[j].date = available_slots[i].date}
    IN {[date |-> available_slots[i].date, time |-> available_slots[i].time] :
            i \in {k \in 1..n : /\ Cardinality(DatesBefore(k)) < DatesListed
                                /\ Cardinality(TimesBefore(k)) < TimesListed}}

\* BookingAgent._proceed_with_restaurant
_proceed_with_restaurant(w, sid, restaurant, avail) ==
    IF restaurant = None THEN Raised(w, "AttributeError")      \* restaurant.id
    ELSE
    LET available_slots == SelectSeq(check_availability(avail), IsAvailable)
    IN IF available_slots = <<>>
       THEN Returned(update_state(w, sid, [step |-> "initial"]),
                     AgentResponse("no_availability", TRUE))
       ELSE Returned(update_state(w, sid,
                        [step |-> "date_time_selection",
                         restaurant_id |-> Some(restaurant.id),
                         restaurant_name |-> Some(restaurant.name),
                         available_slots |-> Some(available_slots)]),
                     AgentResponse("availability_shown", TRUE))

\* a slip: the number typed is used as a zero-based index
HandleRestaurantSelectionZeroBased(w, sid, input) ==
    LET g == IF input.digits # None THEN get_all_restaurants(w)
             ELSE [w |-> w, restaurants |-> <<>>]
    IN IF /\ input.digits # None
          /\ 0 <= input.digits.some
          /\ input.digits.some < Len(g.restaurants)
       THEN _proceed_with_restaurant(g.w, sid, g.restaurants[input.digits.some + 1],
                                     input.avail)
       ELSE LET m == find_restaurant_by_name(g.w, input.scores, 70)
            IN IF m.restaurant # None
               THEN _proceed_with_restaurant(m.w, sid, m.restaurant, input.avail)
               ELSE Returned(m.w, AgentResponse("invalid_selection", TRUE))

\* BookingAgent._handle_restaurant_selection
_handle_restaurant_selection(w, sid, input) ==
    LET g == IF input.digits # None THEN get_all_restaurants(w)
             ELSE [w |-> w, restaurants |-> <<>>]
    IN IF /\ input.digits # None
          /\ 1 <= input.digits.some
          /\ input.digits.some <= Len(g.restaurants)
       THEN _proceed_with_restaurant(g.w, sid, g.restaurants[input.digits.some],
                                     input.avail)
       ELSE LET m == find_restaurant_by_name(g.w, input.scores, 70)
            IN IF m.restaurant # None
               THEN _proceed_with_restaurant(m.w, sid, m.restaurant, input.avail)
               ELSE Returned(m.w, AgentResponse("invalid_selection", TRUE))

\* a slip: the no-keywords are looked for first
HandleRestaurantConfirmationNoFirst(w, sid, state, input) ==
    IF input.no
    THEN _list_all_restaurants(update_state(w, sid, [step |-> "initial"]), sid)
    ELSE IF input.yes
    THEN _proceed_with_restaurant(get_restaurant_by_id(w, state.restaurant_id).w, sid,
                                  get_restaurant_by_id(w, state.restaurant_id).restaurant,
                                  input.avail)
    ELSE Returned(w, AgentResponse("confirmation_needed", TRUE))

\* BookingAgent._handle_restaurant_confirmation
_handle_restaurant_confirmation(w, sid, state, input) ==
    IF input.yes
    THEN LET r == get_restaurant_by_id(w, state.restaurant_id)
         IN _proceed_with_restaurant(r.w, sid, r.restaurant, input.avail)
    ELSE IF input.no
    THEN _list_all_restaurants(update_state(w, sid, [step |-> "initial"]), sid)
    ELSE Returned(w, AgentResponse("confirmation_needed", TRUE))

\* a slip: the date and time extracted are stored without the look-up in
\* the available slots
HandleDatetimeSelectionUnchecked(w, sid, state, input) ==
    IF input.extracted.kind # "object" \/ input.extracted.date = None
       \/ input.extracted.time = None
    THEN Returned(w, AgentResponse("invalid_datetime", TRUE))
    ELSE Returned(update_state(w, sid,
                     [step |-> "collecting_guest_count",
                      selected_date |-> input.extracted.date,
                      selected_time |-> input.extracted.time]),
                  AgentResponse("datetime_confirmed", TRUE))

\* BookingAgent._handle_datetime_selection (with _extract_datetime)
_handle_datetime_selection(w, sid, state, input) ==
    LET x == input.extracted
    IN IF x.kind = "falsy"
       THEN Returned(w, AgentResponse("invalid_datetime", TRUE))
       ELSE IF x.kind = "nonobject"
       THEN Raised(w, "AttributeError")                         \* extracted.get
       ELSE IF x.date = None \/ x.time = None
       THEN Returned(w, AgentResponse("invalid_datetime", TRUE))
       ELSE IF state.available_slots = None
       THEN Raised(w, "TypeError")                      \* iterating over None
       ELSE
       LET slots == state.available_slots.some
           slot_available ==
               \E i \in 1..Len(slots) :
                   /\ Some(slots[i].date) = x.date
                   /\ Some(slots[i].time) = x.time
                   /\ slots[i].available
       IN IF ~slot_available
          THEN Returned(w, AgentResponse("slot_unavailable", TRUE))
          ELSE Returned(update_state(w, sid,
                           [step |-> "collecting_guest_count",
                            selected_date |-> x.date,
                            selected_time |-> x.time]),
                        AgentResponse("datetime_confirmed", TRUE))

\* a query as re.findall(r'\d+', query) reads it: runs of decimal digits,
\* separated by other text
DigitRun(ds) == [kind |-> "digits", ds |-> ds]
OtherText == [kind |-> "text", ds |-> <<>>]

\* re.findall(r'\d+', query): the digit runs, in order
FindallDigits(query) == SelectSeq(query, LAMBDA t : t.kind = "digits")

\* int() of a run of decimal digits
RECURSIVE PyInt(_)
PyInt(ds) ==
    IF ds = <<>> THEN 0 ELSE 10 * PyInt(SubSeq(ds, 1, Len(ds) - 1)) + ds[Len(ds)]

\* a slip: the party size has no upper limit
HandleGuestCountNoLimit(w, sid, input) ==
    IF FindallDigits(input.query) # <<>> /\ 1 <= PyInt(FindallDigits(input.query)[1].ds)
    THEN Returned(update_state(w, sid,
                      [step |-> "collecting_name",
                       guest_count |-> Some(PyInt(FindallDigits(input.query)[1].ds))]),
                  AgentResponse("guest_count_collected", TRUE))
    ELSE Returned(w, AgentResponse("invalid_guest_count", TRUE))

\* BookingAgent._handle_guest_count
_handle_guest_count(w, sid, input) ==
    LET numbers == FindallDigits(input.query)
    IN IF numbers # <<>> /\ 1 <= PyInt(numbers[1].ds) /\ PyInt(numbers[1].ds) <= 20
       THEN Returned(update_state(w, sid, [step |-> "collecting_name",
                                           guest_count |-> Some(PyInt(numbers[1].ds))]),
                     AgentResponse("guest_count_collected", TRUE))
       ELSE Returned(w, AgentResponse("invalid_guest_count", TRUE))

\* BookingAgent._handle_name
_handle_name(w, sid, input) ==
    IF input.name.length >= 2
    THEN Returned(update_state(w, sid, [step |-> "collecting_email",
                                        user_name |-> Some(input.name.text)]),
                  AgentResponse("name_collected", TRUE))
    ELSE Returned(w, AgentResponse("invalid_name", TRUE))

\* a slip: every input is taken as an email address
HandleEmailUnchecked(w, sid, input) ==
    Returned(update_state(w, sid, [step |-> "collecting_phone",
                                   email |-> Some(input.email)]),
             AgentResponse("email_collected", TRUE))

\* BookingAgent._handle_email
_handle_email(w, sid, input) ==
    IF input.email # "bad"
    THEN Returned(update_state(w, sid, [step |-> "collecting_phone",
                                        email |-> Some(input.email)]),
                  AgentResponse("email_collected", TRUE))
    ELSE Returned(w, AgentResponse("invalid_email", TRUE))

\* BookingAgent._handle_phone
_handle_phone(w, sid, input) ==
    IF input.phone # "bad"
    THEN Returned(update_state(w, sid, [step |-> "confirmation",
                                        phone |-> Some(input.phone)]),
                  AgentResponse("confirmation_shown", TRUE))
    ELSE Returned(w, AgentResponse("invalid_phone", TRUE))

\* BookingAgent._handle_confirmation; the yes branch builds the
\* BookingRequest, calls create_booking, stores the confirmation number and
\* schedules _reset_state_delayed
_handle_confirmation(w, sid, state, input) ==
    IF input.yes
    THEN IF ~BookingRequestValid(state) THEN Raised(w, "ValidationError")
         ELSE LET c == create_booking(w, sid, BookingRequest(state))
                  w2 == update_state(c.w, sid,
                            [step |-> "completed",
                             confirmation_number |-> c.confirmation_number])
              IN Returned([w2 EXCEPT !.tasks = w2.tasks + 1],
                          AgentResponse("booking_confirmed", FALSE))
    ELSE IF input.no
    THEN Returned(update_state(w, sid, [step |-> "collecting_guest_count"]),
                  AgentResponse("restart_details", TRUE))
    ELSE Returned(w, AgentResponse("confirmation_needed", TRUE))

\* the dispatch of BookingAgent.process on state.step
Dispatch(w, sid, state, input) ==
    CASE state.step = "initial" -> _handle_initial_request(w, sid, input)
      [] state.step = "restaurant_selection" -> _handle_restaurant_selection(w, sid, input)
      [] state.step = "restaurant_confirmation" ->
             _handle_restaurant_confirmation(w, sid, state, input)
      [] state.step = "date_time_selection" ->
             _handle_datetime_selection(w, sid, state, input)
      [] state.step = "collecting_guest_count" -> _handle_guest_count(w, sid, input)
      [] state.step = "collecting_name" -> _handle_name(w, sid, input)
      [] state.step = "collecting_email" -> _handle_email(w, sid, input)
      [] state.step = "collecting_phone" -> _handle_phone(w, sid, input)
      [] state.step = "confirmation" -> _handle_confirmation(w, sid, state, input)
      [] OTHER -> _handle_initial_request(reset_state(w, sid), sid, input)

\* the except clause of BookingAgent.process: any exception becomes the
\* apology, which asks for a follow-up
ProcessExcept(r) ==
    IF r.exc # NoExc THEN Returned(r.w, AgentResponse("exception", TRUE)) ELSE r

\* BookingAgent.process: get the state, dispatch on its step
process(w, sid, input) == ProcessExcept(Dispatch(w, sid, get_state(w, sid), input))

(***************************************************************************)
(* SpecAgent: turns of BookingAgent.process, one action per step handler,  *)
(* and the delayed reset task.  Turns of one session are sequential (the   *)
(* websocket loop awaits each turn), so a turn is one step.                *)
(***************************************************************************)
Slots == Range(SlotOrder)

InitialInputs == [name : {None} \cup {Some(sc) : sc \in NameScores}]

LowScores == [i \in 1..Len(Catalog) |-> 50]

\* what check_availability reports as available: any of the first two
\* times of the first date, or the whole calendar
AvailChoices == (SUBSET {slot \in Slots : slot.date = 1 /\ slot.time <= 2}) \cup {Slots}

SelectionInputs ==
    {in \in [digits : {None} \cup {Some(n) : n \in 0..(Len(Catalog) + 1)},
             scores : NameScores, avail : AvailChoices] :
        \* no catalog name resembles a number
        in.digits # None => in.scores = LowScores}

RestaurantConfirmationInputs == [yes : BOOLEAN, no : BOOLEAN, avail : AvailChoices]

DatetimeInputs ==
    [extracted : {[kind |-> "falsy"], [kind |-> "nonobject"]}
                 \cup [kind : {"object"},
                       \* 0 is a date (a time) outside the calendar
                       date : {None} \cup {Some(d) : d \in 0..NumDays},
                       time : {None} \cup {Some(t) : t \in 0..NumTimes}]]

\* "", "people", "0", "1", "4", "04", "20", "21", "25", "4 people",
\* "table for 4", "25 or 4", "4 or 25"
GuestQueries ==
    {<<>>, <<OtherText>>,
     <<DigitRun(<<0>>)>>, <<DigitRun(<<1>>)>>, <<DigitRun(<<4>>)>>,
     <<DigitRun(<<0, 4>>)>>, <<DigitRun(<<2, 0>>)>>, <<DigitRun(<<2, 1>>)>>,
     <<DigitRun(<<2, 5>>)>>,
     <<DigitRun(<<4>>), OtherText>>, <<OtherText, DigitRun(<<4>>)>>,
     <<DigitRun(<<2, 5>>), OtherText, DigitRun(<<4>>)>>,
     <<DigitRun(<<4>>), OtherText, DigitRun(<<2, 5>>)>>}

GuestCountInputs == [query : GuestQueries]

NameInputs == [name : {[text |-> "A", length |-> 1], [text |-> "Al", length |-> 2]}]

EmailInputs == [email : {"bad", "ok", "regex_only"}]

PhoneInputs == [phone : {"bad", "ok"}]

ConfirmationInputs == [yes : BOOLEAN, no : BOOLEAN]

\* the number of catalog fetches that fail in a turn before one succeeds
\* (a turn fetches at most three times, and only while the cache is empty)
FetchFailures == IF local_cache = <<>> THEN 0..3 ELSE {0}

\* startup_event: the catalog is prefetched, which may fail
AgentInit ==
    /\ PureIdle
    /\ RouterIdle
    /\ OrchIdle
    /\ local_states = [s \in Sessions |-> None]
    /\ local_cache \in {<<>>, Catalog}
    /\ bookings = 0
    /\ resetTasks = [s \in Sessions |-> 0]
    /\ history = [s \in Sessions |-> <<>>]
    /\ last = None

\* the step process() dispatches on: that of the stored state, initial for
\* a session without one
StepOf(s) == IF local_states[s] = None THEN "initial" ELSE local_states[s].step

\* the effect of a turn whose call of process returned r
TurnResult(s, input, fails, r) ==
    /\ local_states' = [local_states EXCEPT ![s] = r.w.st]
    /\ local_cache' = r.w.cache
    /\ bookings' = bookings + Len(r.w.calls)
    /\ resetTasks' = [resetTasks EXCEPT ![s] = r.w.tasks]
    /\ history' = [history EXCEPT ![s] =
                       IF local_states[s] = None THEN <<r.resp.kind>>
                       ELSE IF @ # <<>> /\ Len(@) < TurnCap
                            THEN Append(@, r.resp.kind)
                            ELSE <<>>]
    /\ last' = [session |-> s, step |-> StepOf(s), input |-> input, fails |-> fails,
                resp |-> r.resp, calls |-> r.w.calls]
    /\ UNCHANGED <<pureVars, routerVars, orchVars>>

\* one turn: process(request) on the session's world
Turn(s, input, fails) ==
    TurnResult(s, input, fails,
               process(World(local_states[s], local_cache, fails, bookings, <<>>,
                             resetTasks[s]), s, input))

HandleInitial(s) ==
    /\ StepOf(s) = "initial"
    /\ \E input \in InitialInputs, fails \in FetchFailures : Turn(s, input, fails)

HandleRestaurantSelection(s) ==
    /\ StepOf(s) = "restaurant_selection"
    /\ \E input \in SelectionInputs, fails \in FetchFailures : Turn(s, input, fails)

HandleRestaurantConfirmation(s) ==
    /\ StepOf(s) = "restaurant_confirmation"
    /\ \E input \in RestaurantConfirmationInputs, fails \in FetchFailures :
           Turn(s, input, fails)

HandleDatetimeSelection(s) ==
    /\ StepOf(s) = "date_time_selection"
    /\ \E input \in DatetimeInputs : Turn(s, input, 0)

HandleGuestCount(s) ==
    /\ StepOf(s) = "collecting_guest_count"
    /\ \E input \in GuestCountInputs : Turn(s, input, 0)

HandleName(s) ==
    /\ StepOf(s) = "collecting_name"
    /\ \E input \in NameInputs : Turn(s, input, 0)

HandleEmail(s) ==
    /\ StepOf(s) = "collecting_email"
    /\ \E input \in EmailInputs : Turn(s, input, 0)

HandlePhone(s) ==
    /\ StepOf(s) = "collecting_phone"
    /\ \E input \in PhoneInputs : Turn(s, input, 0)

HandleConfirmation(s) ==
    /\ StepOf(s) = "confirmation"
    /\ \E input \in ConfirmationInputs :
           /\ input.yes => bookings < MaxBookings
           /\ Turn(s, input, 0)

\* a step without a handler (completed, availability_check): reset, then
\* the initial handler
HandleOtherStep(s) ==
    /\ StepOf(s) \notin {"initial", "restaurant_selection", "restaurant_confirmation",
                         "date_time_selection", "collecting_guest_count",
                         "collecting_name", "collecting_email", "collecting_phone",
                         "confirmation"}
    /\ \E input \in InitialInputs, fails \in FetchFailures : Turn(s, input, fails)

\* a slip: the delayed task ends without resetting the state
ResetStateDelayedNoReset(s) ==
    /\ resetTasks[s] > 0
    /\ resetTasks' = [resetTasks EXCEPT ![s] = @ - 1]
    /\ last' = [session |-> s, reset |-> TRUE]
    /\ UNCHANGED <<local_states, history, local_cache, bookings>>
    /\ UNCHANGED <<pureVars, routerVars, orchVars>>

\* BookingAgent._reset_state_delayed: five seconds after a confirmed
\* booking the session's state is reset
ResetStateDelayed(s) ==
    /\ resetTasks[s] > 0
    /\ resetTasks' = [resetTasks EXCEPT ![s] = @ - 1]
    /\ local_states' = [local_states EXCEPT ![s] = None]
    /\ history' = [history EXCEPT ![s] = <<>>]
    /\ last' = [session |-> s, reset |-> TRUE]
    /\ UNCHANGED <<local_cache, bookings>>
    /\ UNCHANGED <<pureVars, routerVars, orchVars>>

AgentNext ==
    \E s \in Sessions :
        \/ HandleInitial(s)
        \/ HandleRestaurantSelection(s)
        \/ HandleRestaurantConfirmation(s)
        \/ HandleDatetimeSelection(s)
        \/ HandleGuestCount(s)
        \/ HandleName(s)
        \/ HandleEmail(s)
        \/ HandlePhone(s)
        \/ HandleConfirmation(s)
        \/ HandleOtherStep(s)
        \/ ResetStateDelayed(s)

SpecAgent == AgentInit /\ [][AgentNext]_vars

\* SpecAgent with the event loop running every task created by
\* asyncio.create_task: a pending _reset_state_delayed is eventually resumed
\* after its sleep.  User turns are under no fairness: the user may stop.
SpecAgentFair == SpecAgent /\ \A s \in Sessions : WF_vars(ResetStateDelayed(s))

(***************************************************************************)
(* Claims on the booking agent's conversation.                             *)
(***************************************************************************)
\* the last event is a turn of session s
AfterTurn(s) == "resp" \in DOMAIN last /\ last.session = s

\* the slots check_availability reported as available in the last turn
AvailableShown == SelectSeq(check_availability(last.input.avail), IsAvailable)

\* the first turn of a fresh session, no restaurant name extracted, the
\* catalog not empty
C1_Turn1(s) ==
    /\ AfterTurn(s) /\ Len(history[s]) = 1 /\ last.step = "initial"
    /\ last.input.name = None
    /\ local_cache # <<>>

\* the second turn, "1", after the listing
C1_Turn2(s) ==
    /\ AfterTurn(s) /\ Len(history[s]) = 2 /\ history[s][1] = "restaurant_list"
    /\ last.input.digits = Some(1)

\* the third turn, after the listing and the selection: the date and the
\* time extracted match a stored slot that is available
C1_Turn3(s) ==
    /\ AfterTurn(s) /\ Len(history[s]) = 3
    /\ history[s][1] = "restaurant_list" /\ history[s][2] = "availability_shown"
    /\ last.input.extracted.kind = "object"
    /\ \E i \in 1..Len(local_states[s].available_slots.some) :
           LET slot == local_states[s].available_slots.some[i]
           IN /\ slot.available
              /\ Some(slot.date) = last.input.extracted.date
              /\ Some(slot.time) = last.input.extracted.time

\* C1: from a fresh session with a non-empty catalog, a first turn without
\* a restaurant name lists the catalog and leaves step restaurant_selection;
\* a second turn "1" selects the first catalog entry and leaves step
\* date_time_selection with the available slots stored when a slot is
\* available, and step initial with an apology when none is; a third turn
\* whose date and time match an available stored slot leaves step
\* collecting_guest_count with the date and the time stored.
C1_EndToEndScenario ==
    \A s \in Sessions :
        /\ C1_Turn1(s) =>
              /\ last.resp.kind = "restaurant_list"
              /\ local_states[s].step = "restaurant_selection"
        /\ C1_Turn2(s) =>
              IF last.input.avail # {}
              THEN /\ last.resp.kind = "availability_shown"
                   /\ local_states[s].step = "date_time_selection"
                   /\ local_states[s].restaurant_id = Some(local_cache[1].id)
                   /\ local_states[s].restaurant_name = Some(local_cache[1].name)
                   /\ local_states[s].available_slots = Some(AvailableShown)
              ELSE /\ last.resp.kind = "no_availability"
                   /\ local_states[s].step = "initial"
        /\ C1_Turn3(s) =>
              /\ last.resp.kind = "datetime_confirmed"
              /\ local_states[s].step = "collecting_guest_count"
              /\ Some(local_states[s].selected_date.some) = last.input.extracted.date
              /\ Some(local_states[s].selected_time.some) = last.input.extracted.time

\* the scenario's third turn has happened, after a second turn that chose
\* among several slots of which one was not available
C1_Witness ==
    \E s \in Sessions :
        /\ C1_Turn3(s)
        /\ local_states[s].step = "collecting_guest_count"
        /\ local_states[s].restaurant_id = Some("r1")
        /\ Len(local_states[s].available_slots.some) < Len(SlotOrder)

\* what the claim C2 says of one turn: the stored state before and after
\* it (None when the session has none), the turn, the bookings made so far
C2_TurnOutcome(before, after, turn, made) ==
    IF turn.step # "confirmation" THEN turn.calls = <<>>
    ELSE IF turn.input.yes
    THEN /\ turn.calls = <<BookingRequest(before)>>
         /\ after # None
         /\ after.step = "completed"
         /\ after.confirmation_number = Some(made)
    ELSE IF turn.input.no
    THEN /\ turn.calls = <<>>
         /\ after # None
         /\ after.step = "collecting_guest_count"
    ELSE /\ turn.calls = <<>>
         /\ after = before

\* C2: in step confirmation a yes-keyword causes exactly one create_booking
\* call built from the collected fields, stores the returned confirmation
\* number and sets step completed; otherwise a no-keyword sets step
\* collecting_guest_count without a call; any other input makes no call and
\* leaves the state unchanged; in no other step is create_booking called.
C2_ConfirmationOutcome ==
    [][\A s \in Sessions :
          ("resp" \in DOMAIN last' /\ last'.session = s /\ last' # last) =>
              C2_TurnOutcome(local_states[s], local_states'[s], last', bookings')]_vars

\* the first number of a query, if it has one
NumberSaid(query) ==
    LET at == {i \in 1..Len(query) : query[i].kind = "digits"}
    IN IF at = {} THEN None
       ELSE Some(PyInt(query[CHOOSE i \in at : \A j \in at : i <= j].ds))

\* the input of a turn in the given step fails the step's validation: no
\* entry of the catalog at that number and no name scoring 70; a date or a
\* time missing from the extraction, or a pair that is no available stored
\* slot; no number from 1 to 20; a name shorter than two characters; no
\* email (phone) pattern; neither a yes nor a no keyword
FailsValidation(step, input, state) ==
    CASE step = "restaurant_selection" ->
             /\ input.digits # None =>
                    (input.digits.some < 1 \/ input.digits.some > Len(Catalog))
             /\ \A i \in 1..Len(Catalog) : input.scores[i] < 70
      [] step = "date_time_selection" ->
             \/ input.extracted.kind = "falsy"
             \/ /\ input.extracted.kind = "object"
                /\ \/ input.extracted.date = None
                   \/ input.extracted.time = None
                   \/ /\ state.available_slots # None
                      /\ \A i \in 1..Len(state.available_slots.some) :
                             LET slot == state.available_slots.some[i]
                             IN ~(/\ Some(slot.date) = input.extracted.date
                                  /\ Some(slot.time) = input.extracted.time
                                  /\ slot.available)
      [] step = "collecting_guest_count" ->
             \/ NumberSaid(input.query) = None
             \/ NumberSaid(input.query).some < 1
             \/ NumberSaid(input.query).some > 20
      [] step = "collecting_name" -> input.name.length < 2
      [] step = "collecting_email" -> input.email = "bad"
      [] step = "collecting_phone" -> input.phone = "bad"
      [] step = "confirmation" -> ~input.yes /\ ~input.no
      [] OTHER -> FALSE

\* the re-prompt of each step
RepromptKinds(step) ==
    CASE step = "restaurant_selection" -> {"invalid_selection"}
      [] step = "date_time_selection" -> {"invalid_datetime", "slot_unavailable"}
      [] step = "collecting_guest_count" -> {"invalid_guest_count"}
      [] step = "collecting_name" -> {"invalid_name"}
      [] step = "collecting_email" -> {"invalid_email"}
      [] step = "collecting_phone" -> {"invalid_phone"}
      [] step = "confirmation" -> {"confirmation_needed"}
      [] OTHER -> {}

C14_GuestCountRange ==
    [][\A s \in Sessions :
          (/\ AfterTurn(s)'
           /\ local_states[s] # None
           /\ local_states[s].step = "collecting_guest_count"
           /\ last'.step = "collecting_guest_count")
          => LET n == NumberSaid(last'.input.query)
             IN IF n # None /\ 1 <= n.some /\ n.some <= 20
                THEN /\ local_states'[s] =
                            [local_states[s] EXCEPT !.step = "collecting_name",
                                                    !.guest_count = n]
                     /\ last'.resp = AgentResponse("guest_count_collected", TRUE)
                ELSE /\ local_states'[s] = local_states[s]
                     /\ last'.resp = AgentResponse("invalid_guest_count", TRUE)]_vars

\* C14 witness: the input "4 people" in collecting_guest_count stored
\* guest_count = 4 and moved the step to collecting_name.
C14_Witness ==
    \E s \in Sessions :
        /\ AfterTurn(s)
        /\ last.step = "collecting_guest_count"
        /\ last.input.query = <<DigitRun(<<4>>), OtherText>>
        /\ local_states[s] # None
        /\ local_states[s].guest_count = Some(4)
        /\ local_states[s].step = "collecting_name"

\* C17: after a booking is confirmed (step = completed) the session's
\* booking state eventually is initial again, with no further user turn
\* needed: the delayed reset scheduled at the confirmation fires (the event
\* loop runs the task, SpecAgentFair).
C17_CompletedLeadsToInitial ==
    \A s \in Sessions :
        (local_states[s] # None /\ local_states[s].step = "completed")
            ~> (StepOf(s) = "initial")

\* C17 witness: the delayed reset of a confirmed booking has fired and the
\* session has no stored state, so its step is initial.
C17_Witness ==
    \E s \in Sessions :
        /\ "reset" \in DOMAIN last
        /\ last.session = s
        /\ bookings = 1
        /\ resetTasks[s] = 0
        /\ local_states[s] = None
        /\ StepOf(s) = "initial"

\* C18: when a booking-agent turn ends in an unrecoverable error (a handler
\* raised and process answered with the apology), the session's
\* BookingState is reset to initial, so the next turn is handled as a new
\* initial request.
C18_ErrorResetsState ==
    \A s \in Sessions :
        (AfterTurn(s) /\ last.resp.kind = "exception") => StepOf(s) = "initial"

\* C19: in date_time_selection an extracted (date, time) pair is accepted
\* (step becomes collecting_guest_count, the pair stored) only if it is a
\* slot the availability message showed and that slot is available; a pair
\* that was never shown, or an incomplete extraction, leaves the state
\* unchanged.
C19_OnlyShownSlotsAccepted ==
    [][\A s \in Sessions :
          (/\ AfterTurn(s)'
           /\ local_states[s] # None
           /\ local_states[s].step = "date_time_selection"
           /\ local_states[s].available_slots # None
           /\ last'.step = "date_time_selection")
          => LET x == last'.input.extracted
                 complete == x.kind = "object" /\ x.date # None /\ x.time # None
                 shown == ShownSlots(local_states[s].available_slots.some)
             IN IF complete /\ [date |-> x.date.some, time |-> x.time.some] \in shown
                THEN local_states'[s] =
                         [local_states[s] EXCEPT !.step = "collecting_guest_count",
                                                 !.selected_date = x.date,
                                                 !.selected_time = x.time]
                ELSE local_states'[s] = local_states[s]]_vars

\* the list the session's previous turn showed: the similar matches
\* (response restaurant_selection) or the catalog (response restaurant_list)
LastShownList(s) ==
    IF last.resp.kind = "restaurant_selection" THEN local_states[s].fuzzy_matches.some
    ELSE local_cache

\* C20: in restaurant_selection a numeric input k selects the k-th entry
\* (1-based) of the list the session was last shown, the similar matches or
\* the catalog; k outside that list is invalid input (re-prompt, state
\* unchanged).  Stated for the turn that follows the one showing the list.
C20_NumberSelectsFromShownList ==
    [][\A s \in Sessions :
          (/\ AfterTurn(s)
           /\ last.resp.kind \in {"restaurant_selection", "restaurant_list"}
           /\ local_states[s] # None
           /\ local_states[s].step = "restaurant_selection"
           /\ AfterTurn(s)'
           /\ last'.step = "restaurant_selection"
           /\ last'.input.digits # None)
          => IF /\ 1 <= last'.input.digits.some
                /\ last'.input.digits.some <= Len(LastShownList(s))
             THEN /\ last'.resp.kind \in {"availability_shown", "no_availability"}
                  /\ last'.resp.kind = "availability_shown" =>
                         /\ local_states'[s].restaurant_id =
                                Some(LastShownList(s)[last'.input.digits.some].id)
                         /\ local_states'[s].restaurant_name =
                                Some(LastShownList(s)[last'.input.digits.some].name)
             ELSE /\ local_states'[s] = local_states[s]
                  /\ last'.resp = AgentResponse("invalid_selection", TRUE)]_vars

\* the best similarity score of a typed name, and the first catalog
\* position that has it
BestScore(scores) == CHOOSE v \in Range(scores) : \A u \in Range(scores) : u <= v
BestAt(scores) == CHOOSE i \in 1..Len(scores) :
                      /\ scores[i] = BestScore(scores)
                      /\ \A j \in 1..(i - 1) : scores[j] # BestScore(scores)

\* the state a turn of session s starts from
StateBefore(s) == IF local_states[s] = None THEN BookingState(s) ELSE local_states[s]

C23_ResetKeepsLaterBooking ==
    [][\A s \in Sessions :
          (/\ resetTasks'[s] < resetTasks[s]
           /\ local_states[s] # None
           /\ local_states[s].step # "completed")
          => local_states'[s] = local_states[s]]_vars

\* the fields of the booking are set in the state, the guest count is
\* between 1 and 20, the selected slot is one of the stored available slots
ReadyToBook(state) ==
    /\ \A f \in {"restaurant_id", "restaurant_name", "selected_date", "selected_time",
                 "guest_count", "user_name", "email", "phone"} : state[f] # None
    /\ state.guest_count.some \in 1..20
    /\ state.available_slots # None
    /\ \E i \in 1..Len(state.available_slots.some) :
           /\ state.available_slots.some[i].available
           /\ Some(state.available_slots.some[i].date) = state.selected_date
           /\ Some(state.available_slots.some[i].time) = state.selected_time

\* C33: whenever a turn of the booking agent calls create_booking, the
\* session's restaurant, date, time, guest count, name, email and phone are
\* set, the guest count is between 1 and 20, the selected date and time are
\* one of the stored available slots, and the request carries those values
C33_BookingCallsAreComplete ==
    [][\A s \in Sessions :
          (AfterTurn(s)' /\ last'.calls # <<>>) =>
              /\ local_states[s] # None
              /\ ReadyToBook(local_states[s])
              /\ last'.calls = <<BookingRequest(local_states[s])>>]_vars

\* a confirmation turn that made the booking
C33_Witness ==
    \E s \in Sessions :
        /\ AfterTurn(s)
        /\ last.step = "confirmation"
        /\ last.resp.kind = "booking_confirmed"
        /\ Len(last.calls) = 1
        /\ bookings = 1

\* the steps process() has a handler for
HandledSteps ==
    {"initial", "restaurant_selection", "restaurant_confirmation", "date_time_selection",
     "collecting_guest_count", "collecting_name", "collecting_email", "collecting_phone",
     "confirmation"}

\* what a turn does that finds no stored state: the initial handler on an
\* empty store
FreshTurn(s, input, fails) ==
    process(World(None, local_cache, fails, bookings, <<>>, resetTasks[s]), s, input)

\* C34: a turn that finds the session at a step without a handler resets
\* the stored state and is processed as an initial request: the response
\* and the stored state are those of a turn on a session without state, so
\* the stored state holds no field value of the previous booking
C34_UnhandledStepResets ==
    [][\A s \in Sessions :
          (AfterTurn(s)' /\ last'.step \notin HandledSteps) =>
              /\ last'.resp = FreshTurn(s, last'.input, last'.fails).resp
              /\ local_states'[s] = FreshTurn(s, last'.input, last'.fails).w.st
              /\ local_states'[s] # None =>
                     \A f \in {"available_slots", "selected_date", "selected_time",
                               "guest_count", "user_name", "email", "phone",
                               "confirmation_number"} : local_states'[s][f] = None]_vars

\* a turn at step completed that started a new booking
C34_Witness ==
    \E s \in Sessions :
        /\ AfterTurn(s)
        /\ last.step = "completed"
        /\ local_states[s] # None
        /\ local_states[s].step = "restaurant_confirmation"
        /\ local_states[s].confirmation_number = None

NumUids == 2

PlanUids == 1..NumUids

\* BasePlanner._create_plan_id
_create_plan_id(domain, uid) == [domain |-> domain, uid |-> uid]

\* f"{plan_id}_{name}"
StepId(plan_id, name) == [plan_id |-> plan_id, name |-> name]

\* the metadata of a step: restaurant_name and search_criteria, None when
\* the key is absent
StepMetadata(restaurant_name, search_criteria) ==
    [restaurant_name |-> restaurant_name, search_criteria |-> search_criteria]

ActionStep(plan_id, name, action_type, required_data, dependencies, metadata) ==
    [step_id |-> StepId(plan_id, name), action_type |-> action_type,
     required_data |-> required_data,
     dependencies |-> {StepId(plan_id, d) : d \in dependencies},
     metadata |-> metadata]

ActionPlan(plan_id, domain, steps, scenario) ==
    [plan_id |-> plan_id, domain |-> domain, steps |-> steps, scenario |-> scenario]

PlannerResponse(plan, confidence, requires_clarification) ==
    [plan |-> plan, confidence |-> confidence,
     requires_clarification |-> requires_clarification]

\* the scores of the restaurant names an analysis may carry: one that
\* matches the first catalog entry, one that matches none
PlannerScores == {[i \in 1..Len(Catalog) |-> IF i = 1 THEN 80 ELSE 50], LowScores}

\* the value of explicit_requirements["restaurant_name"]
NameValues ==
    {[kind |-> "falsy"]} \cup [kind : {"str"}, scores : PlannerScores]

ExplicitReqs ==
    {[kind |-> "null"], [kind |-> "dict", has_restaurant |-> FALSE],
     [kind |-> "list", has_restaurant |-> TRUE]}
    \cup [kind : {"dict"}, has_restaurant : {TRUE}, date : BOOLEAN, time : BOOLEAN,
          party_size : BOOLEAN, name : NameValues]

MissingList(count, has, strs) ==
    [kind |-> "list", count |-> count, has |-> has, strs |-> strs]

MissingReqs ==
    {[kind |-> "number"],
     MissingList(0, {}, TRUE),
     MissingList(3, {"date"}, TRUE),
     MissingList(3, {"date", "party_size"}, TRUE),
     MissingList(3, {"party_size"}, FALSE),
     MissingList(4, {"date", "party_size"}, TRUE),
     MissingList(4, {}, FALSE)}

\* what _analyze_query returns; when the completion call or json.loads
\* fails it is the default analysis, an object with {} and []
Analyses ==
    {[kind |-> "nondict"]}
    \cup [kind : {"dict"}, explicit_requirements : ExplicitReqs,
          missing_requirements : MissingReqs]

\* a call of plan(): the analysis, the keywords of the query (a search
\* word, else a booking word, else none), whether the clarification
\* questions the completion port returns are a list of strings, the uuid
PlannerInputs ==
    [analysis : Analyses, kw : {"search", "book", "none"},
     questions_valid : BOOLEAN, uid : PlanUids]

\* BookingPlanner._determine_scenario
_determine_scenario(kw, analysis) ==
    IF analysis.kind # "dict" THEN [exc |-> "AttributeError"]       \* analysis.get
    ELSE IF analysis.explicit_requirements.kind = "null"
    THEN [exc |-> "TypeError"]                     \* "restaurant_name" in None
    ELSE IF /\ analysis.explicit_requirements.has_restaurant
            /\ analysis.explicit_requirements.kind = "dict"
            /\ \/ analysis.explicit_requirements.date            \* has_datetime
               \/ analysis.explicit_requirements.time
            /\ analysis.explicit_requirements.party_size
    THEN [exc |-> NoExc, scenario |-> "specific_restaurant_with_details"]
    ELSE IF analysis.explicit_requirements.has_restaurant
    THEN [exc |-> NoExc, scenario |-> "specific_restaurant_no_details"]
    ELSE IF kw \in {"search", "book"}
    THEN [exc |-> NoExc, scenario |-> "general_search"]
    ELSE [exc |-> NoExc, scenario |-> "unclear"]

NoMetadata == StepMetadata(None, None)

BookingData == <<"restaurant_id", "date", "time", "party_size", "name", "email", "phone">>

\* BookingPlanner._create_specific_booking_plan
_create_specific_booking_plan(plan_id, analysis) ==
    IF analysis.explicit_requirements.kind # "dict"
    THEN [exc |-> "AttributeError"]                           \* explicit_reqs.get
    ELSE [exc |-> NoExc, plan |-> ActionPlan(plan_id, "booking",
        <<ActionStep(plan_id, "verify_restaurant", "search", <<"restaurant_name">>, {},
                     StepMetadata(Some(analysis.explicit_requirements.name), None)),
          ActionStep(plan_id, "check_availability", "validate",
                     <<"restaurant_id", "date", "time", "party_size">>,
                     {"verify_restaurant"}, NoMetadata),
          ActionStep(plan_id, "collect_contact", "collect_info",
                     <<"name", "email", "phone">>, {"check_availability"}, NoMetadata),
          ActionStep(plan_id, "create_booking", "execute", BookingData,
                     {"collect_contact"}, NoMetadata)>>,
        "specific_with_details")]

\* BookingPlanner._create_restaurant_info_collection_plan
_create_restaurant_info_collection_plan(plan_id, analysis) ==
    IF analysis.explicit_requirements.kind # "dict"
    THEN [exc |-> "AttributeError"]                           \* explicit_reqs.get
    ELSE IF analysis.missing_requirements.kind # "list"
    THEN [exc |-> "TypeError"]                                \* "date" in 3
    ELSE
    LET missing == analysis.missing_requirements.has
        collect == (IF "date" \in missing THEN {"collect_datetime"} ELSE {})
                   \cup (IF "party_size" \in missing THEN {"collect_party_size"} ELSE {})
    IN [exc |-> NoExc, plan |-> ActionPlan(plan_id, "booking",
        <<ActionStep(plan_id, "verify_restaurant", "search", <<"restaurant_name">>, {},
                     StepMetadata(Some(analysis.explicit_requirements.name), None))>>
        \o (IF "date" \in missing
            THEN <<ActionStep(plan_id, "collect_datetime", "collect_info",
                              <<"date", "time">>, {"verify_restaurant"}, NoMetadata)>>
            ELSE <<>>)
        \o (IF "party_size" \in missing
            THEN <<ActionStep(plan_id, "collect_party_size", "collect_info",
                              <<"party_size">>, {"verify_restaurant"}, NoMetadata)>>
            ELSE <<>>)
        \o <<ActionStep(plan_id, "check_availability", "validate",
                        <<"restaurant_id", "date", "time", "party_size">>,
                        collect, NoMetadata),
             ActionStep(plan_id, "collect_contact", "collect_info",
                        <<"name", "email", "phone">>, {"check_availability"}, NoMetadata),
             ActionStep(plan_id, "create_booking", "execute", BookingData,
                        {"collect_contact"}, NoMetadata)>>,
        "specific_no_details")]

\* BookingPlanner._create_search_and_book_plan
_create_search_and_book_plan(plan_id, analysis) ==
    [exc |-> NoExc, plan |-> ActionPlan(plan_id, "booking",
        <<ActionStep(plan_id, "search_restaurants", "search", <<>>, {},
                     StepMetadata(None, Some(analysis.explicit_requirements.kind))),
          ActionStep(plan_id, "select_restaurant", "collect_info",
                     <<"selected_restaurant">>, {"search_restaurants"}, NoMetadata),
          ActionStep(plan_id, "collect_datetime", "collect_info", <<"date", "time">>,
                     {"select_restaurant"}, NoMetadata),
          ActionStep(plan_id, "collect_party_size", "collect_info", <<"party_size">>,
                     {"select_restaurant"}, NoMetadata),
          ActionStep(plan_id, "check_availability", "validate",
                     <<"restaurant_id", "date", "time", "party_size">>,
                     {"collect_datetime", "collect_party_size"}, NoMetadata),
          ActionStep(plan_id, "collect_contact", "collect_info",
                     <<"name", "email", "phone">>, {"check_availability"}, NoMetadata),
          ActionStep(plan_id, "create_booking", "execute", BookingData,
                     {"collect_contact"}, NoMetadata)>>,
        "search_and_book")]

\* BookingPlanner._create_clarification_plan
_create_clarification_plan(plan_id, analysis) ==
    [exc |-> NoExc, plan |-> ActionPlan(plan_id, "booking",
        <<ActionStep(plan_id, "clarify_intent", "collect_info", <<"clarified_intent">>,
                     {}, NoMetadata)>>,
        "clarification")]

SearchStepName(domain) ==
    IF domain = "properties" THEN "search_properties" ELSE "search_schools"

\* _create_search_plan of the properties and the education planner
_create_search_plan(plan_id, domain, analysis) ==
    IF analysis.kind # "dict" THEN [exc |-> "AttributeError"]       \* analysis.get
    ELSE [exc |-> NoExc, plan |-> ActionPlan(plan_id, domain,
        <<ActionStep(plan_id, SearchStepName(domain), "search", <<>>, {},
                     StepMetadata(None, Some(analysis.explicit_requirements.kind))),
          ActionStep(plan_id, "present_results", "execute", <<"search_results">>,
                     {SearchStepName(domain)}, NoMetadata)>>,
        IF domain = "properties" THEN "property_search" ELSE "school_search")]

\* _create_fallback_response of each planner
_create_fallback_response(domain, uid) ==
    PlannerResponse(
        ActionPlan(_create_plan_id(domain, uid), domain,
                   <<ActionStep(_create_plan_id(domain, uid), "fallback", "collect_info",
                                <<>>, {}, NoMetadata)>>,
                   "fallback"),
        30, TRUE)

\* what plan() does with the synthesized plan: validate it, decide on
\* clarification (more than `threshold` missing requirements), build the
\* response.  synthesized records the plan the template produced.
FinishPlan(domain, input, plan, threshold, confidence) ==
    IF ~_validate_plan(plan)
    THEN [exc |-> NoExc, synthesized |-> Some(plan),
          response |-> _create_fallback_response(domain, input.uid)]
    ELSE IF input.analysis.missing_requirements.kind # "list"
    THEN [exc |-> "TypeError", synthesized |-> Some(plan)]                \* len(3)
    ELSE IF /\ input.analysis.missing_requirements.count > threshold
            /\ ~input.analysis.missing_requirements.strs
    THEN [exc |-> "TypeError", synthesized |-> Some(plan)]        \* ', '.join([3])
    ELSE IF /\ input.analysis.missing_requirements.count > threshold
            /\ ~input.questions_valid
    THEN [exc |-> "ValidationError", synthesized |-> Some(plan)]  \* PlannerResponse
    ELSE [exc |-> NoExc, synthesized |-> Some(plan),
          response |-> PlannerResponse(plan, confidence,
                          input.analysis.missing_requirements.count > threshold)]

\* the template's result t: its exception, or FinishPlan on its plan
AfterTemplate(domain, input, t, threshold, confidence) ==
    IF t.exc # NoExc THEN [exc |-> t.exc, synthesized |-> None]
    ELSE FinishPlan(domain, input, t.plan, threshold, confidence)

\* the plan of the scenario
BookingTemplate(scenario, plan_id, analysis) ==
    CASE scenario = "specific_restaurant_with_details" ->
             _create_specific_booking_plan(plan_id, analysis)
      [] scenario = "specific_restaurant_no_details" ->
             _create_restaurant_info_collection_plan(plan_id, analysis)
      [] scenario = "general_search" -> _create_search_and_book_plan(plan_id, analysis)
      [] OTHER -> _create_clarification_plan(plan_id, analysis)

\* the try block of BookingPlanner.plan, given the scenario's result sc
BookingPlanScenario(input, sc) ==
    IF sc.exc # NoExc THEN [exc |-> sc.exc, synthesized |-> None]
    ELSE AfterTemplate("booking", input,
                       BookingTemplate(sc.scenario, _create_plan_id("booking", input.uid),
                                       input.analysis),
                       3, IF sc.scenario # "unclear" THEN 90 ELSE 30)

\* the try block of plan(): the exception it raises, or its response
PlanBody(domain, input) ==
    IF domain = "booking"
    THEN BookingPlanScenario(input, _determine_scenario(input.kw, input.analysis))
    ELSE AfterTemplate(domain, input,
                       _create_search_plan(_create_plan_id(domain, input.uid), domain,
                                           input.analysis),
                       2, 85)

\* a slip: plan() catches nothing
PlanNoCatch(domain, input, body) ==
    IF body.exc # NoExc THEN [exc |-> body.exc] ELSE [exc |-> NoExc, response |-> body.response]

\* the except clause of plan(): any exception becomes the fallback response
PlanExcept(domain, input, body) ==
    [exc |-> NoExc,
     response |-> IF body.exc # NoExc THEN _create_fallback_response(domain, input.uid)
                  ELSE body.response]

\* plan() of the planner of the domain
plan(domain, input) == PlanExcept(domain, input, PlanBody(domain, input))

(***************************************************************************)
(* The executors (app/agents/base_executor.py, booking/booking_executor.py,*)
(* properties/properties_executor.py, education/education_executor.py).    *)
(*                                                                         *)
(* The user input of a turn is modelled by what _process_user_input        *)
(* extracts from it: what _extract_datetime returns ("none": an object     *)
(* without date and time, "both": an object with both, "nonobject": JSON   *)
(* that is no object), the first number, the email address, whether it     *)
(* holds ten digits.                                                       *)
(***************************************************************************)
CollectedKeys ==
    {"restaurant_id", "restaurant_name", "date", "time", "party_size", "guest_count",
     "name", "email", "phone"}

NoData == [k \in CollectedKeys |-> None]

\* the context execute() creates for a session that has none
NewContext(plan_id) ==
    [completed_steps |-> <<>>, collected_data |-> NoData, plan_id |-> plan_id,
     available_restaurants |-> None]

UserInput(datetime, number, email, phone) ==
    [datetime |-> datetime, number |-> number, email |-> email, phone |-> phone]

UserInputs ==
    {UserInput("none", None, None, FALSE),                 \* "hello"
     UserInput("none", Some(0), None, FALSE),              \* "0"
     UserInput("none", Some(1), None, FALSE),              \* "1"
     UserInput("none", Some(3), None, FALSE),              \* "3"
     UserInput("both", Some(3), None, FALSE),              \* "on the 3rd at seven"
     UserInput("nonobject", Some(3), None, FALSE),
     UserInput("none", None, Some("ok"), FALSE),           \* "a@b.com"
     UserInput("none", None, Some("regex_only"), FALSE),   \* "a@b..com"
     UserInput("none", Some(3), None, TRUE)}               \* "3335551234"

Has(step, field) == field \in Range(step.required_data)

\* the value _process_user_input leaves in collected[k]
CollectedAfter(step, u, ctx, k) ==
    CASE k \in {"date", "time"} ->
             IF (Has(step, "date") \/ Has(step, "time")) /\ u.datetime = "both"
             THEN Some(1) ELSE ctx.collected_data[k]
      [] k \in {"party_size", "guest_count"} ->
             IF /\ Has(step, "party_size") \/ Has(step, "guest_count")
                /\ u.number # None /\ u.number.some # 0
             THEN u.number ELSE ctx.collected_data[k]
      [] k = "name" -> IF Has(step, "name") THEN Some("text") ELSE ctx.collected_data[k]
      [] k = "email" ->
             IF Has(step, "email") /\ u.email # None THEN u.email
             ELSE ctx.collected_data[k]
      [] k = "phone" ->
             IF Has(step, "phone") /\ u.phone THEN Some("ok") ELSE ctx.collected_data[k]
      [] OTHER ->                                \* restaurant_id, restaurant_name
             IF /\ Has(step, "selected_restaurant")
                /\ u.number # None /\ u.number.some # 0
                /\ ctx.available_restaurants # None
                /\ u.number.some <= Len(ctx.available_restaurants.some)
             THEN Some(IF k = "restaurant_id"
                       THEN ctx.available_restaurants.some[u.number.some].id
                       ELSE ctx.available_restaurants.some[u.number.some].name)
             ELSE ctx.collected_data[k]

\* BookingExecutor._process_user_input
_process_user_input(step, u, ctx) ==
    IF (Has(step, "date") \/ Has(step, "time")) /\ u.datetime = "nonobject"
    THEN [exc |-> "AttributeError", ctx |-> ctx]                 \* datetime_info.get
    ELSE [exc |-> NoExc, success |-> TRUE,
          ctx |-> [ctx EXCEPT !.collected_data =
                      [k \in CollectedKeys |-> CollectedAfter(step, u, ctx, k)]]]

\* BaseExecutor._validate_required_data: the required fields that are
\* missing from the collected data, in order
MissingData(step, collected) ==
    SelectSeq(step.required_data,
              LAMBDA f : f \notin CollectedKeys \/ collected[f] = None)

\* the result of executing a step: the world, the context, success,
\* requires_user_input
StepResult(w, ctx, success, requires_user_input) ==
    [w |-> w, ctx |-> ctx, success |-> success, requires_user_input |-> requires_user_input]

\* _execute_search, the named restaurant looked up (m)
SearchNamed(sid, ctx, m) ==
    IF m.restaurant # None
    THEN StepResult(update_state(m.w, sid,
                        [restaurant_id |-> Some(m.restaurant.id),
                         restaurant_name |-> Some(m.restaurant.name),
                         step |-> "restaurant_confirmation"]),
                    [ctx EXCEPT !.collected_data["restaurant_id"] = Some(m.restaurant.id),
                                !.collected_data["restaurant_name"] = Some(m.restaurant.name)],
                    TRUE, FALSE)
    ELSE StepResult(m.w, ctx, FALSE, TRUE)

\* _execute_search, the catalog listed (g)
SearchAll(ctx, g) ==
    StepResult(g.w, [ctx EXCEPT !.available_restaurants = Some(g.restaurants)], TRUE, TRUE)

\* BookingExecutor._execute_search
_execute_search(w, sid, step, ctx) ==
    IF step.metadata.restaurant_name # None
       /\ step.metadata.restaurant_name.some.kind = "str"
    THEN SearchNamed(sid, ctx,
             find_restaurant_by_name(w, step.metadata.restaurant_name.some.scores, 75))
    ELSE SearchAll(ctx, get_all_restaurants(w))

\* BookingExecutor._execute_validation: check_availability is called with
\* keyword arguments it does not have, the TypeError is caught
_execute_validation(w, step, ctx) ==
    IF MissingData(step, ctx.collected_data) # <<>>
    THEN StepResult(w, ctx, FALSE, TRUE)
    ELSE StepResult(w, ctx, FALSE, FALSE)

\* BookingExecutor._execute_collection
_execute_collection(w, step, ctx) ==
    IF step.required_data = <<>> THEN StepResult(w, ctx, TRUE, FALSE)
    ELSE IF \E i \in 1..Len(step.required_data) :
                \/ step.required_data[i] \notin CollectedKeys
                \/ ctx.collected_data[step.required_data[i]] = None
    THEN StepResult(w, ctx, FALSE, TRUE)
    ELSE StepResult(w, ctx, TRUE, FALSE)

\* the BookingRequest _execute_booking builds from the collected data
CollectedRequest(collected) ==
    [restaurant_id |-> collected["restaurant_id"],
     restaurant_name |-> collected["restaurant_name"],
     date |-> collected["date"], time |-> collected["time"],
     guest_count |-> collected["party_size"], user_name |-> collected["name"],
     email |-> collected["email"], phone |-> collected["phone"]]

\* a slip: the booking is made without the check of the required data
ExecuteBookingUnvalidated(w, sid, step, ctx) ==
    StepResult(create_booking(w, sid, CollectedRequest(ctx.collected_data)).w,
               ctx, FALSE, FALSE)

\* BookingExecutor._execute_booking: the request may be rejected by the
\* EmailStr validation; create_booking returns a dict, so the read of
\* confirmation.status raises; both are caught
_execute_booking(w, sid, step, ctx) ==
    IF MissingData(step, ctx.collected_data) # <<>>
    THEN StepResult(w, ctx, FALSE, TRUE)
    ELSE IF ctx.collected_data["email"] = Some("regex_only")
    THEN StepResult(w, ctx, FALSE, FALSE)
    ELSE StepResult(create_booking(w, sid, CollectedRequest(ctx.collected_data)).w,
                    ctx, FALSE, FALSE)

\* BookingExecutor._execute_step
_execute_step(w, sid, step, ctx) ==
    CASE step.action_type = "search" -> _execute_search(w, sid, step, ctx)
      [] step.action_type = "validate" -> _execute_validation(w, step, ctx)
      [] step.action_type = "collect_info" -> _execute_collection(w, step, ctx)
      [] step.action_type = "execute" -> _execute_booking(w, sid, step, ctx)
      [] OTHER -> StepResult(w, ctx, FALSE, FALSE)

ExecutorResponse(completed_steps, current_step_id, next_step_id, plan_completed, requires) ==
    [completed_steps |-> completed_steps, current_step_id |-> current_step_id,
     next_step_id |-> next_step_id, plan_completed |-> plan_completed,
     requires_user_input |-> requires]

\* what execute() leaves: the world, the session's context, the response or
\* the exception raised, and the step it selected (None when it selected
\* none)
Executed(w, ctx, resp, selected) ==
    [exc |-> NoExc, w |-> w, ctx |-> ctx, resp |-> resp, selected |-> selected]

ExecuteRaised(w, ctx, exc) ==
    [exc |-> exc, w |-> w, ctx |-> ctx, selected |-> None]

StepIdOf(step) == IF step = None THEN None ELSE Some(step.step_id)

\* execute(), the step done: following is the step after it
StepDone(r, action_plan, next_step, completed, following) ==
    Executed(r.w, [r.ctx EXCEPT !.completed_steps = completed],
             ExecutorResponse(completed, Some(next_step.step_id), StepIdOf(following),
                              _is_plan_complete(action_plan, completed),
                              following # None /\ following.action_type = "collect_info"),
             Some(next_step.step_id))

\* execute(), the selected step executed with result r
AfterStep(action_plan, next_step, r) ==
    IF r.success /\ ~r.requires_user_input
    THEN StepDone(r, action_plan, next_step, Append(r.ctx.completed_steps, next_step.step_id),
                  _get_next_step(action_plan, Append(r.ctx.completed_steps, next_step.step_id)))
    ELSE Executed(r.w, r.ctx,
                  ExecutorResponse(r.ctx.completed_steps, Some(next_step.step_id),
                                   Some(next_step.step_id), FALSE, TRUE),
                  Some(next_step.step_id))

\* execute(), from the choice of the next step on
ExecuteNext(w, sid, action_plan, ctx, next_step) ==
    IF next_step = None
    THEN Executed(w, ctx, ExecutorResponse(ctx.completed_steps, None, None, TRUE, FALSE),
                  None)                                  \* _create_completion_response
    ELSE AfterStep(action_plan, next_step, _execute_step(w, sid, next_step, ctx))

\* execute(), the user input processed with result p; an exception is
\* handed to _handle_error without a step, which raises in turn
AfterInput(w, sid, action_plan, current_step, p) ==
    IF p.exc # NoExc THEN ExecuteRaised(w, p.ctx, "AttributeError")
    ELSE ExecuteNext(w, sid, action_plan,
                     [p.ctx EXCEPT !.completed_steps = Append(@, current_step.step_id)],
                     _get_next_step(action_plan, Append(p.ctx.completed_steps,
                                                 current_step.step_id)))

\* next((s for s in request.plan.steps if s.step_id == current_step_id), None)
CurrentStep(action_plan, current_step_id) ==
    IF \E i \in 1..Len(action_plan.steps) :
           Some(action_plan.steps[i].step_id) = current_step_id
    THEN action_plan.steps[CHOOSE i \in 1..Len(action_plan.steps) :
                        /\ Some(action_plan.steps[i].step_id) = current_step_id
                        /\ \A j \in 1..(i - 1) :
                               Some(action_plan.steps[j].step_id) # current_step_id]
    ELSE None

\* ExecutorRequest
ExecutorRequest(action_plan, current_step_id, user_input) ==
    [plan |-> action_plan, current_step_id |-> current_step_id, user_input |-> user_input]

\* BookingExecutor.execute, on the session's context ctx
ExecuteWith(w, sid, request, ctx, current_step) ==
    IF current_step # None /\ request.user_input # None
    THEN AfterInput(w, sid, request.plan, current_step,
                    _process_user_input(current_step, request.user_input.some, ctx))
    ELSE ExecuteNext(w, sid, request.plan, ctx,
                     _get_next_step(request.plan, ctx.completed_steps))

\* BookingExecutor.execute: the context is created on the session's first call
booking_execute(w, sid, execution, request) ==
    ExecuteWith(w, sid, request,
                IF execution = None THEN NewContext(request.plan.plan_id) ELSE execution,
                CurrentStep(request.plan, request.current_step_id))

\* PropertiesExecutor.execute and EducationExecutor.execute: a search with
\* the first step's criteria, which fails on criteria that are null
search_execute(w, execution, request) ==
    IF request.plan.steps[1].metadata.search_criteria = Some("null")
    THEN Executed(w, execution, ExecutorResponse(<<>>, None, None, FALSE, FALSE), None)
    ELSE Executed(w, execution,
                  ExecutorResponse([i \in 1..Len(request.plan.steps) |->
                                        request.plan.steps[i].step_id],
                                   None, None, TRUE, FALSE),
                  None)

\* executor.execute of the domain
execute(domain, w, sid, execution, request) ==
    IF domain = "booking" THEN booking_execute(w, sid, execution, request)
    ELSE search_execute(w, execution, request)

(***************************************************************************)
(* The orchestrator (app/orchestrator/agent_orchestrator.py): a turn of    *)
(* process_query runs the graph route_query -> create_plan -> execute_plan *)
(* or route_query -> handle_unclear.  oState is the AgentState of the turn *)
(* in progress, with the node to run next; trace lists the stages invoked  *)
(* so far: "Route" (routing_agent.route), "Plan" (planner.plan), "Execute" *)
(* (executor.execute), "Clarify" (_handle_unclear_intent).                 *)
(***************************************************************************)
\* completion outcomes of the routing call: a failure, text that is not
\* JSON and mentions at most one domain, an object with a domain member
OrchLlmOutcomes ==
    {llm \in RouterLlmOutcomes :
        \/ llm.fail
        \/ /\ ~llm.fail
           /\ llm.text.fence = "none"
           /\ llm.text.kw = {}
           /\ \/ /\ llm.text.json = "invalid"
                 /\ Cardinality(llm.text.mentions) <= 1
              \/ /\ llm.text.json = "object"
                 /\ llm.text.mentions = {}
                 /\ llm.text.fields_valid
                 /\ ~llm.text.requires_clarification
                 /\ llm.text.confidence = [kind |-> "num", v |-> 50]
                 /\ llm.text.domain \in {[kind |-> "str", s |-> "booking"],
                                         [kind |-> "str", s |-> "unclear"],
                                         [kind |-> "str", s |-> "weather"]}}

\* the number of turns of a session
MaxTurns == 2

\* a slip: every routed domain is planned for
ShouldCreatePlanAlways(domain) == "plan"

\* EnhancedAgentOrchestrator._should_create_plan
_should_create_plan(domain) ==
    IF domain \in {"booking", "properties", "education"} THEN "plan" ELSE "unclear"

\* the node the conditional edge after route_query leads to
NodeAfterRoute(domain) ==
    IF _should_create_plan(domain) = "plan" THEN "create_plan" ELSE "handle_unclear"

\* the turns the session has had
TurnsOf(s) == IF oResult[s] = None THEN 0 ELSE oResult[s].turn

\* the AgentState after _route_query, r being what route did
Routed(s, r) ==
    [session |-> s,
     routing_decision |-> IF r.exc = NoExc THEN Some(r.decision) ELSE None,
     domain |-> IF r.exc = NoExc THEN r.decision.domain ELSE "unclear",
     routed |-> IF r.exc = NoExc THEN r.decision.domain ELSE "raised",
     action_plan |-> None, metadata |-> None, planned |-> None,
     trace |-> <<"Route">>,
     node |-> NodeAfterRoute(IF r.exc = NoExc THEN r.decision.domain ELSE "unclear")]

\* process_query builds the initial state and the graph runs route_query
RouteQuery(s) ==
    /\ oState = None
    /\ bookings < MaxBookings
    /\ TurnsOf(s) < MaxTurns
    /\ \E llm \in OrchLlmOutcomes : oState' = Routed(s, route(llm))
    /\ UNCHANGED <<execution_context, oResult, pureVars, routerVars, agentVars>>

\* the AgentState after _create_plan, r being what planner.plan did and
\* body what the try block of plan() did
Planned(state, body, r) ==
    IF r.exc # NoExc
    THEN [state EXCEPT !.domain = "unclear", !.node = "execute_plan",
                       !.trace = Append(@, "Plan"),
                       !.planned = Some([exc |-> body.exc, synthesized |-> body.synthesized,
                                         raised |-> TRUE])]
    ELSE [state EXCEPT !.action_plan = Some(r.response.plan),
                       !.metadata = Some([planner_confidence |-> r.response.confidence,
                                          requires_clarification |->
                                              r.response.requires_clarification]),
                       !.node = "execute_plan",
                       !.trace = Append(@, "Plan"),
                       !.planned = Some([exc |-> body.exc, synthesized |-> body.synthesized,
                                         raised |-> FALSE])]

PlannedWith(state, input, body) ==
    Planned(state, body, PlanExcept(state.domain, input, body))

\* _create_plan
CreatePlan(s) ==
    /\ oState # None
    /\ oState.session = s
    /\ oState.node = "create_plan"
    /\ IF oState.domain \notin DomainSet                      \* no planner
       THEN oState' = [oState EXCEPT !.domain = "unclear", !.node = "execute_plan"]
       ELSE \E input \in PlannerInputs :
                oState' = PlannedWith(oState, input, PlanBody(oState.domain, input))
    /\ UNCHANGED <<execution_context, oResult, pureVars, routerVars, agentVars>>

\* what process_query returns, with what the turn did: the stages, the
\* plan handed to the executor, the completed steps the session had before
\* the turn, the step the executor selected
TurnOutput(state, trace, requires_followup, handed, before, selected, response) ==
    [turn |-> TurnsOf(state.session) + 1, intent |-> state.domain, requires_followup |-> requires_followup,
     routed |-> state.routed, trace |-> trace, handed |-> handed,
     before |-> before, selected |-> selected, response |-> response]

CompletedBefore(s) ==
    IF execution_context[s] = None THEN <<>> ELSE execution_context[s].completed_steps

\* _execute_plan, r being what executor.execute did
ExecutedPlan(s, state, r) ==
    /\ oResult' = [oResult EXCEPT ![s] =
           TurnOutput(state, Append(state.trace, "Execute"),
                      IF r.exc = NoExc THEN r.resp.requires_user_input ELSE FALSE,
                      state.action_plan, CompletedBefore(s), r.selected,
                      IF r.exc = NoExc THEN Some(r.resp) ELSE None)]
    /\ execution_context' = [execution_context EXCEPT ![s] = r.ctx]
    /\ local_states' = [local_states EXCEPT ![s] = r.w.st]
    /\ local_cache' = r.w.cache
    /\ bookings' = bookings + Len(r.w.calls)
    /\ oState' = None
    /\ UNCHANGED <<resetTasks, history, last, pureVars, routerVars>>

\* whether the catalog fetch of the turn fails (execute fetches at most
\* once, and only while the cache is empty)
ExecuteFetchFailures == IF local_cache = <<>> THEN {0, 1} ELSE {0}

\* the ids a caller can pass as current_step_id: none, or one of those the
\* previous response of the session named
CallerStepIds(s) ==
    {None} \cup (IF oResult[s] # None /\ oResult[s].response # None
                 THEN {oResult[s].response.some.current_step_id,
                       oResult[s].response.some.next_step_id}
                 ELSE {})

\* _execute_plan; current_step_id and user_input, which process_query puts
\* in the initial state and only this node reads, are chosen here
ExecutePlan(s) ==
    /\ oState # None
    /\ oState.session = s
    /\ oState.node = "execute_plan"
    /\ IF oState.domain \notin DomainSet \/ oState.action_plan = None
       THEN /\ oResult' = [oResult EXCEPT ![s] =
                   TurnOutput(oState, oState.trace, FALSE, None, CompletedBefore(s),
                              None, None)]
            /\ oState' = None
            /\ UNCHANGED <<execution_context, pureVars, routerVars, agentVars>>
       ELSE \E current_step_id \in CallerStepIds(s),
               user_input \in {None} \cup {Some(u) : u \in UserInputs},
               fails \in ExecuteFetchFailures :
                ExecutedPlan(s, oState,
                    execute(oState.domain,
                            World(local_states[s], local_cache, fails, bookings, <<>>,
                                  resetTasks[s]),
                            s, execution_context[s],
                            ExecutorRequest(oState.action_plan.some, current_step_id,
                                            user_input)))

\* _handle_unclear_intent
HandleUnclear(s) ==
    /\ oState # None
    /\ oState.session = s
    /\ oState.node = "handle_unclear"
    /\ oResult' = [oResult EXCEPT ![s] =
           TurnOutput(oState, Append(oState.trace, "Clarify"), TRUE, None,
                      CompletedBefore(s), None, None)]
    /\ oState' = None
    /\ UNCHANGED <<execution_context, pureVars, routerVars, agentVars>>

\* startup_event (the catalog is prefetched, which may fail), no turn yet
OrchInit ==
    /\ PureIdle
    /\ RouterIdle
    /\ OrchIdle
    /\ local_states = [s \in Sessions |-> None]
    /\ local_cache \in {<<>>, Catalog}
    /\ bookings = 0
    /\ resetTasks = [s \in Sessions |-> 0]
    /\ history = [s \in Sessions |-> <<>>]
    /\ last = None

OrchNext ==
    \E s \in Sessions :
        \/ RouteQuery(s)
        \/ CreatePlan(s)
        \/ ExecutePlan(s)
        \/ HandleUnclear(s)

SpecOrch == OrchInit /\ [][OrchNext]_vars

(***************************************************************************)
(* Claims about the turns of process_query.                                *)
(***************************************************************************)
\* the names of the steps of a plan
StepNames(action_plan) ==
    {action_plan.steps[i].step_id.name : i \in 1..Len(action_plan.steps)}

\* the turn that ends in this step was executed by the booking executor, as
\* was the session's previous turn, on a plan of the same scenario
ConsecutiveBookingTurns(s) ==
    /\ oState # None /\ oState.session = s /\ oState.node = "execute_plan"
    /\ oState' = None
    /\ oResult[s] # None /\ oResult[s].handed # None
    /\ oResult[s].intent = "booking"
    /\ oResult'[s].handed # None
    /\ oResult'[s].intent = "booking"
    /\ oResult[s].handed.some.scenario = oResult'[s].handed.some.scenario

\* C6: partial progress persists across turns: in consecutive booking turns
\* of a session, a step that an earlier turn completed (its id is in the
\* session's completed steps when the later turn starts) is not the step
\* the executor selects in the later turn.
C6_ProgressPersists ==
    [][\A s \in Sessions :
          ConsecutiveBookingTurns(s) =>
              \A i \in 1..Len(execution_context[s].completed_steps) :
                  \/ execution_context[s].completed_steps[i].name
                         \notin StepNames(oResult'[s].handed.some)
                  \/ oResult'[s].selected = None
                  \/ oResult'[s].selected.some.name
                         # execution_context[s].completed_steps[i].name]_vars

\* the stages of a finished turn, by what routing yielded
StagesOf(routed) ==
    IF routed \in DomainSet THEN <<"Route", "Plan", "Execute">> ELSE <<"Route", "Clarify">>

IsPrefix(a, b) == Len(a) <= Len(b) /\ a = SubSeq(b, 1, Len(a))

\* C7: in a turn the stages run in a total order, each at most once: Route
\* first, then Plan and Execute when the routed domain is booking,
\* properties or education; when routing yields unclear or raises, only the
\* clarification stage follows, no planner and no executor is invoked, and
\* the result has requires_followup = TRUE.
C7_StageOrder ==
    /\ oState # None =>
           /\ oState.trace # <<>>
           /\ IsPrefix(oState.trace, StagesOf(oState.routed))
           /\ Len(oState.trace) < Len(StagesOf(oState.routed))
    /\ \A s \in Sessions :
           oResult[s] # None =>
               /\ oResult[s].trace = StagesOf(oResult[s].routed)
               /\ oResult[s].routed \notin DomainSet =>
                      /\ oResult[s].requires_followup
                      /\ oResult[s].handed = None

\* a turn routed to a domain has planned and executed, and a turn whose
\* routing was unclear has ended in the clarification
C7_Witness ==
    /\ oResult["s1"] # None
    /\ oResult["s1"].turn = 2
    /\ oResult["s1"].routed = "unclear"
    /\ oResult["s1"].trace = <<"Route", "Clarify">>
    /\ oResult["s1"].requires_followup
    /\ execution_context["s1"] # None
    /\ execution_context["s1"].completed_steps # <<>>

\* the single-step fallback plan with confidence 0.3 that asks for
\* clarification
IsFallback(state) ==
    /\ state.action_plan # None
    /\ Len(state.action_plan.some.steps) = 1
    /\ state.action_plan.some.steps[1].step_id.name = "fallback"
    /\ state.action_plan.some.scenario = "fallback"
    /\ state.metadata = Some([planner_confidence |-> 30, requires_clarification |-> TRUE])

\* the try block of plan() raised or synthesized a plan that is rejected
Rejected(planned) ==
    \/ planned.exc # NoExc
    \/ planned.synthesized # None /\ ~_validate_plan(planned.synthesized.some)

\* C8: plan() never raises and returns a plan that passes _validate_plan;
\* when planning raised or the synthesized plan is rejected, the response
\* carries the single-step fallback plan with confidence 0.3 and
\* requires_clarification = TRUE, and the plan handed to the executor is
\* never a rejected one.
C8_PlanNeverRaisesAndIsValid ==
    /\ (oState # None /\ oState.planned # None) =>
           /\ ~oState.planned.some.raised
           /\ oState.action_plan # None
           /\ _validate_plan(oState.action_plan.some)
           /\ Rejected(oState.planned.some) => IsFallback(oState)
    /\ \A s \in Sessions :
           (oResult[s] # None /\ oResult[s].handed # None) =>
               _validate_plan(oResult[s].handed.some)

\* planning raised (the analysis is no object) and the fallback plan is
\* about to be executed
C8_Witness ==
    /\ oState # None
    /\ oState.node = "execute_plan"
    /\ oState.planned # None
    /\ oState.planned.some.exc = "AttributeError"
    /\ oState.planned.some.synthesized = None
    /\ IsFallback(oState)

\* the finished turn of session s answered with an apology of _execute_plan:
\* the executor raised, or there was no executor or no plan
ExecuteApology(s) ==
    /\ oResult[s] # None
    /\ oResult[s].response = None
    /\ oResult[s].trace[Len(oResult[s].trace)] # "Clarify"

\* C12: every apology for an unexpected exception at the outermost boundary
\* carries requires_followup = true; here for the orchestrator's execute
\* stage, when it catches an exception or finds no executor or no plan.
C12_ApologyRequiresFollowup ==
    \A s \in Sessions : ExecuteApology(s) => oResult[s].requires_followup

(***************************************************************************)
(* SpecStateManager: the operations of BookingStateManager (in-memory)     *)
(* called directly, in any order, with any arguments.  The store is        *)
(* local_states; last holds the last call and what it returned.            *)
(***************************************************************************)
\* step arguments: the values of BookingState.step and another string
StepStrings == StepValues \cup {"bogus"}

\* keyword arguments of update_state: fields of BookingState, and a name
\* that is no field
StateUpdates ==
    {[guest_count |-> Some(4)], [user_name |-> Some("Al")], [nonexistent |-> Some(1)]}
    \cup {[step |-> x] : x \in StepStrings}

\* BookingStateManager.set_step
set_step(w, session_id, step) == update_state(w, session_id, [step |-> step])

\* valid_transitions of validate_step_transition
valid_transitions ==
    [current_step \in StepValues |->
        CASE current_step = "initial" -> {"restaurant_selection", "restaurant_confirmation"}
          [] current_step = "restaurant_selection" ->
                 {"restaurant_confirmation", "availability_check"}
          [] current_step = "restaurant_confirmation" ->
                 {"availability_check", "restaurant_selection"}
          [] current_step = "availability_check" -> {"date_time_selection"}
          [] current_step = "date_time_selection" -> {"collecting_guest_count"}
          [] current_step = "collecting_guest_count" -> {"collecting_name"}
          [] current_step = "collecting_name" -> {"collecting_email"}
          [] current_step = "collecting_email" -> {"collecting_phone"}
          [] current_step = "collecting_phone" -> {"confirmation"}
          [] current_step = "confirmation" -> {"completed", "collecting_guest_count"}
          [] current_step = "completed" -> {"initial"}]

\* BookingStateManager.validate_step_transition
validate_step_transition(current_step, next_step) ==
    LET allowed == IF current_step \in DOMAIN valid_transitions
                   THEN valid_transitions[current_step] ELSE {}
    IN next_step \in allowed

\* the world a state-manager call of session s runs in
StoreWorld(s) == World(local_states[s], local_cache, 0, bookings, <<>>, resetTasks[s])

StateManagerInit ==
    /\ PureIdle
    /\ RouterIdle
    /\ OrchIdle
    /\ AgentIdle

CallGetState(s) ==
    /\ last' = [op |-> "get_state", session |-> s, result |-> get_state(StoreWorld(s), s)]
    /\ UNCHANGED <<local_states, local_cache, bookings, resetTasks, history>>
    /\ UNCHANGED <<pureVars, routerVars, orchVars>>

CallUpdateState(s) ==
    /\ \E updates \in StateUpdates :
           /\ local_states' = [local_states EXCEPT
                                  ![s] = update_state(StoreWorld(s), s, updates).st]
           /\ last' = [op |-> "update_state", session |-> s, updates |-> updates,
                       result |-> local_states'[s]]
    /\ UNCHANGED <<local_cache, bookings, resetTasks, history>>
    /\ UNCHANGED <<pureVars, routerVars, orchVars>>

CallSetStep(s) ==
    /\ \E step \in StepStrings :
           /\ local_states' = [local_states EXCEPT
                                  ![s] = set_step(StoreWorld(s), s, step).st]
           /\ last' = [op |-> "set_step", session |-> s, step |-> step,
                       result |-> local_states'[s]]
    /\ UNCHANGED <<local_cache, bookings, resetTasks, history>>
    /\ UNCHANGED <<pureVars, routerVars, orchVars>>

\* a slip: reset_state clears the whole store
CallResetStateAll(s) ==
    /\ local_states' = [b \in DOMAIN local_states |-> None]
    /\ last' = [op |-> "reset_state", session |-> s, before |-> local_states[s]]
    /\ UNCHANGED <<local_cache, bookings, resetTasks, history>>
    /\ UNCHANGED <<pureVars, routerVars, orchVars>>

CallResetState(s) ==
    /\ local_states' = [local_states EXCEPT ![s] = reset_state(StoreWorld(s), s).st]
    /\ last' = [op |-> "reset_state", session |-> s, before |-> local_states[s]]
    /\ UNCHANGED <<local_cache, bookings, resetTasks, history>>
    /\ UNCHANGED <<pureVars, routerVars, orchVars>>

CallValidateStepTransition ==
    /\ \E current_step \in StepStrings, next_step \in StepStrings :
           last' = [op |-> "validate_step_transition", current_step |-> current_step,
                    next_step |-> next_step,
                    result |-> validate_step_transition(current_step, next_step)]
    /\ UNCHANGED <<local_states, local_cache, bookings, resetTasks, history>>
    /\ UNCHANGED <<pureVars, routerVars, orchVars>>

StateManagerNext ==
    \/ \E s \in Sessions :
           \/ CallGetState(s)
           \/ CallUpdateState(s)
           \/ CallSetStep(s)
           \/ CallResetState(s)
    \/ CallValidateStepTransition

SpecStateManager == StateManagerInit /\ [][StateManagerNext]_vars

(***************************************************************************)
(* Claims about the state manager (SpecStateManager).                      *)
(***************************************************************************)
\* the transitions of the specified booking state graph
SpecifiedTransitions ==
    {<<"initial", "restaurant_selection">>, <<"initial", "restaurant_confirmation">>,
     <<"restaurant_selection", "date_time_selection">>,
     <<"restaurant_confirmation", "date_time_selection">>,
     <<"restaurant_confirmation", "restaurant_selection">>,
     <<"date_time_selection", "collecting_guest_count">>,
     <<"collecting_guest_count", "collecting_name">>,
     <<"collecting_name", "collecting_email">>,
     <<"collecting_email", "collecting_phone">>,
     <<"collecting_phone", "confirmation">>,
     <<"confirmation", "completed">>,
     <<"confirmation", "collecting_guest_count">>,
     <<"completed", "initial">>}

\* C15: validate_step_transition(current, next) is true exactly for the
\* transitions of the specified booking state graph.
C15_TransitionsAsSpecified ==
    ("op" \in DOMAIN last /\ last.op = "validate_step_transition")
    => (last.result <=> <<last.current_step, last.next_step>> \in SpecifiedTransitions)

\* C16: after any sequence of get_state, update_state, set_step (with any
\* string) and reset_state, the step of every stored BookingState is one of
\* the enumerated step values.
C16_StoredStepEnumerated ==
    \A s \in Sessions : local_states[s] # None => local_states[s].step \in StepValues

\* C24: every change of the stored step that the booking agent makes (here:
\* by a turn or by the delayed reset, a session without stored state being
\* in step initial) is no change or a transition validate_step_transition
\* accepts.  Stated on SpecAgent.
C24_AgentFollowsTransitions ==
    [][\A s \in Sessions :
          \/ StepOf(s)' = StepOf(s)
          \/ validate_step_transition(StepOf(s), StepOf(s)')]_vars

(***************************************************************************)
(* SpecService: find_restaurant_by_name and find_similar_restaurants of    *)
(* RestaurantService called directly on a cached catalog (or an empty      *)
(* cache whose fetch may fail), for every modelled name, threshold and     *)
(* limit.  The cache is local_cache; last holds the call and its result.   *)
(***************************************************************************)
\* a catalog of three restaurants
ServiceCatalog == Catalog \o <<[id |-> "r3", name |-> "Grill House"]>>

\* fuzz.ratio of "Ocean Gril" against "Ocean Grill" and "Oceanview Bistro"
\* (100 * 2 * LCS / total length: 20/21 and 14/26), rounded
OceanGrilScores == <<95, 54>>

\* the scores of the typed names against a catalog of n restaurants
ServiceScores(n) ==
    [1..n -> ScoreLevels] \cup (IF n = Len(Catalog) THEN {OceanGrilScores} ELSE {})

\* the length of the catalog a call will see
CatalogSeen == IF local_cache = <<>> THEN Len(Catalog) ELSE Len(local_cache)

ServiceThresholds == {60, 70, 75}

ServiceLimits == 1..3

ServiceInit ==
    /\ PureIdle
    /\ RouterIdle
    /\ OrchIdle
    /\ local_states = [s \in Sessions |-> None]
    /\ local_cache \in {<<>>, Catalog, ServiceCatalog}
    /\ bookings = 0
    /\ resetTasks = [s \in Sessions |-> 0]
    /\ history = [s \in Sessions |-> <<>>]
    /\ last = None

\* the effect of a call that returned r (its world r.w)
ServiceCalled(call, r, result) ==
    /\ last' = [op |-> call.op, scores |-> call.scores, threshold |-> call.threshold,
                limit |-> call.limit, catalog |-> r.w.cache, result |-> result]
    /\ local_cache' = r.w.cache
    /\ UNCHANGED <<local_states, bookings, resetTasks, history>>
    /\ UNCHANGED <<pureVars, routerVars, orchVars>>

CallFindRestaurantByName ==
    \E scores \in ServiceScores(CatalogSeen), threshold \in ServiceThresholds,
       fails \in ExecuteFetchFailures :
        LET r == find_restaurant_by_name(
                     World(None, local_cache, fails, 0, <<>>, 0), scores, threshold)
        IN ServiceCalled([op |-> "find_restaurant_by_name", scores |-> scores,
                          threshold |-> threshold, limit |-> 0], r, r.restaurant)

CallFindSimilarRestaurants ==
    \E scores \in ServiceScores(CatalogSeen), threshold \in ServiceThresholds,
       limit \in ServiceLimits, fails \in ExecuteFetchFailures :
        LET r == find_similar_restaurants(
                     World(None, local_cache, fails, 0, <<>>, 0), scores, limit, threshold)
        IN ServiceCalled([op |-> "find_similar_restaurants", scores |-> scores,
                          threshold |-> threshold, limit |-> limit], r, r.matches)

\* the effect of a catalog call that returned r while the data service
\* was failing its next `fails` fetches
CatalogCalled(op, fails, r) ==
    /\ last' = [op |-> op, fails |-> fails, before |-> local_cache,
                catalog |-> r.w.cache, left |-> r.w.fails, result |-> r.restaurants]
    /\ local_cache' = r.w.cache
    /\ UNCHANGED <<local_states, bookings, resetTasks, history>>
    /\ UNCHANGED <<pureVars, routerVars, orchVars>>

\* restaurant_service.get_all_restaurants(), the data service up or down
CallGetAllRestaurants ==
    \E fails \in {0, 1} :
        CatalogCalled("get_all_restaurants", fails,
                      get_all_restaurants(World(None, local_cache, fails, 0, <<>>, 0)))

\* restaurant_service.prefetch_restaurants(), the data service up or down
CallPrefetchRestaurants ==
    \E fails \in {0, 1} :
        CatalogCalled("prefetch_restaurants", fails,
                      prefetch_restaurants(World(None, local_cache, fails, 0, <<>>, 0)))

ServiceNext ==
    \/ CallFindRestaurantByName
    \/ CallFindSimilarRestaurants
    \/ CallGetAllRestaurants
    \/ CallPrefetchRestaurants

SpecService == ServiceInit /\ [][ServiceNext]_vars

(***************************************************************************)
(* Claims about the restaurant service (SpecService).                      *)
(***************************************************************************)
\* the position of a restaurant in the catalog of the last call
PositionOf(r) == CHOOSE i \in 1..Len(last.catalog) : last.catalog[i] = r

\* C22: on a non-empty catalog find_restaurant_by_name returns a restaurant
\* whose score is the highest of the catalog when that score is >= the
\* threshold, and None otherwise; find_similar_restaurants returns at most
\* limit candidates, all scoring >= its threshold, by descending score with
\* ties in catalog order.
C22_FuzzyMatch ==
    ("op" \in DOMAIN last /\ "catalog" \in DOMAIN last /\ last.catalog # <<>>) =>
        /\ last.op = "find_restaurant_by_name" =>
               IF BestScore(last.scores) >= last.threshold
               THEN /\ last.result # None
                    /\ last.result \in Range(last.catalog)
                    /\ last.scores[PositionOf(last.result)] = BestScore(last.scores)
               ELSE last.result = None
        /\ last.op = "find_similar_restaurants" =>
               /\ Len(last.result) <= last.limit
               /\ \A k \in 1..Len(last.result) :
                      /\ last.result[k] \in Range(last.catalog)
                      /\ last.scores[PositionOf(last.result[k])] >= last.threshold
               /\ \A k \in 1..(Len(last.result) - 1) :
                      LET i == PositionOf(last.result[k])
                          j == PositionOf(last.result[k + 1])
                      IN \/ last.scores[i] > last.scores[j]
                         \/ last.scores[i] = last.scores[j] /\ i < j

\* C22 witness: "Ocean Gril" against the catalog Ocean Grill, Oceanview
\* Bistro with threshold 75 returned Ocean Grill.
C22_Witness ==
    /\ "op" \in DOMAIN last
    /\ last.op = "find_restaurant_by_name"
    /\ last.catalog = Catalog
    /\ last.scores = OceanGrilScores
    /\ last.threshold = 75
    /\ last.result # None
    /\ last.result.name = "Ocean Grill"

MaxCompleted == 4

\* an analysis naming a restaurant that matches the first catalog entry
NamedAnalysis ==
    [kind |-> "dict",
     explicit_requirements |->
         [kind |-> "dict", has_restaurant |-> TRUE, date |-> TRUE, time |-> TRUE,
          party_size |-> TRUE,
          name |-> [kind |-> "str",
                    scores |-> [i \in 1..Len(Catalog) |-> IF i = 1 THEN 80 ELSE 50]]],
     missing_requirements |-> MissingList(0, {}, TRUE)]

\* the plans of the requests: the plan for a named restaurant under each
\* uuid, the planner's fallback plan
ExecutorPlans ==
    {_create_specific_booking_plan(_create_plan_id("booking", uid), NamedAnalysis).plan :
        uid \in PlanUids}
    \cup {_create_fallback_response("booking", 1).plan}

\* the user inputs of the requests
ExecutorInputs ==
    {UserInput("none", None, None, FALSE),                 \* "hello"
     UserInput("both", Some(3), None, FALSE),              \* "on the 3rd at seven"
     UserInput("nonobject", Some(3), None, FALSE),
     UserInput("none", None, Some("ok"), FALSE),           \* "a@b.com"
     UserInput("none", Some(3), None, TRUE),               \* "3335551234"
     UserInput("none", Some(3), Some("ok"), TRUE)}         \* "a@b.com, 3335551234"

ExecutorInit ==
    /\ PureIdle
    /\ RouterIdle
    /\ AgentIdle
    /\ OrchIdle

\* the context execute works on
ContextOf(s, request) ==
    IF execution_context[s] = None THEN NewContext(request.plan.plan_id)
    ELSE execution_context[s]

\* the ids a caller passes as current_step_id: none, or one the previous
\* response named
ResponseStepIds ==
    {None} \cup (IF last # None /\ last.resp # None
                 THEN {last.resp.some.current_step_id, last.resp.some.next_step_id}
                 ELSE {})

\* the call made, r being what execute did; available is what the data
\* service answers in this call for the slot collected
ExecuteCalled(s, request, available, r) ==
    /\ last' = [op |-> "execute", session |-> s, request |-> request,
                available |-> available,
                ctx |-> ContextOf(s, request), exc |-> r.exc,
                resp |-> IF r.exc = NoExc THEN Some(r.resp) ELSE None,
                selected |-> r.selected, after |-> r.ctx, calls |-> r.w.calls]
    /\ execution_context' = [execution_context EXCEPT ![s] = r.ctx]
    /\ local_states' = [local_states EXCEPT ![s] = r.w.st]
    /\ local_cache' = r.w.cache
    /\ bookings' = bookings + Len(r.w.calls)
    /\ UNCHANGED <<resetTasks, history, oState, oResult, pureVars, routerVars>>

\* booking_executor.execute(request)
CallExecute(s) ==
    /\ bookings < MaxBookings
    /\ execution_context[s] # None
           => Len(execution_context[s].completed_steps) < MaxCompleted
    /\ \E action_plan \in ExecutorPlans,
          current_step_id \in ResponseStepIds,
          user_input \in {None} \cup {Some(u) : u \in ExecutorInputs},
          fails \in ExecuteFetchFailures,
          available \in BOOLEAN :
           ExecuteCalled(s, ExecutorRequest(action_plan, current_step_id, user_input),
               available,
               booking_execute(World(local_states[s], local_cache, fails, bookings, <<>>,
                                     resetTasks[s]),
                               s, execution_context[s],
                               ExecutorRequest(action_plan, current_step_id, user_input)))

ExecutorNext == \E s \in Sessions : CallExecute(s)

SpecExecutor == ExecutorInit /\ [][ExecutorNext]_vars


(***************************************************************************)
(* Claims about the booking executor.                                      *)
(***************************************************************************)
\* the last call was a call of execute that returned
ExecuteReturned == "request" \in DOMAIN last /\ last.exc = NoExc

\* the step the request's current_step_id names in the request's plan
RequestedStep == CurrentStep(last.request.plan, last.request.current_step_id)

\* the last call folded a user input into the collected data for the
\* requested step and added that step to completed_steps
CurrentStepCompleted ==
    /\ ExecuteReturned
    /\ RequestedStep # None
    /\ last.request.user_input # None
    /\ Len(last.after.completed_steps) > Len(last.ctx.completed_steps)
    /\ last.after.completed_steps[Len(last.ctx.completed_steps) + 1] = RequestedStep.step_id

\* C25: when execute is called with a current_step_id and a user input,
\* the current step is added to completed_steps only if, after the input
\* is folded into collected_data, every field of the step's required_data
\* is present
C25_CompletedOnlyWithRequiredData ==
    CurrentStepCompleted => MissingData(RequestedStep, last.after.collected_data) = <<>>


\* the step the last call dispatched (None when it dispatched none)
DispatchedStep ==
    IF "request" \in DOMAIN last THEN CurrentStep(last.request.plan, last.selected)
    ELSE None

\* the last call dispatched a step of the given action type
Dispatched(action_type) ==
    DispatchedStep # None /\ DispatchedStep.action_type = action_type

\* C26: create_booking is called only while an execute step is dispatched
\* whose required_data fields are all present and non-null in the collected
\* data; when a required field is missing no create_booking call is made,
\* the step is not marked completed and the response asks for input
C26_BookingOnlyWithRequiredData ==
    "request" \in DOMAIN last =>
        /\ last.calls # <<>> =>
               /\ Dispatched("execute")
               /\ MissingData(DispatchedStep, last.after.collected_data) = <<>>
        /\ ( /\ Dispatched("execute")
             /\ MissingData(DispatchedStep, last.after.collected_data) # <<>> ) =>
               /\ last.calls = <<>>
               /\ DispatchedStep.step_id \notin Range(last.after.completed_steps)
               /\ last.resp # None
               /\ last.resp.some.requires_user_input

\* a call made create_booking for the dispatched execute step
C26_Witness ==
    /\ "request" \in DOMAIN last
    /\ Dispatched("execute")
    /\ Len(last.calls) = 1


\* C27: dispatching a collect_info step always requires user input: the
\* response has requires_user_input = true and the step is not marked
\* completed by that dispatch, whatever its required_data (the empty
\* required_data of the planner's fallback step included)
C27_CollectionRequiresInput ==
    Dispatched("collect_info") =>
        /\ last.resp # None
        /\ last.resp.some.requires_user_input
        /\ DispatchedStep.step_id \notin Range(last.after.completed_steps)


\* C28: dispatching a validate step whose required_data is all present
\* branches on the availability the data service reports: available, the
\* step succeeds and is marked completed in that call; unavailable, it is
\* not completed and the response requires user input.  With a field
\* missing the step is not completed and input is required.
C28_ValidationBranchesOnAvailability ==
    Dispatched("validate") =>
        IF MissingData(DispatchedStep, last.after.collected_data) = <<>> /\ last.available
        THEN DispatchedStep.step_id \in Range(last.after.completed_steps)
        ELSE /\ DispatchedStep.step_id \notin Range(last.after.completed_steps)
             /\ last.resp # None
             /\ last.resp.some.requires_user_input


\* C29: execute never raises: an exception raised inside it is answered
\* with a response (requires_user_input = true, plan_completed = false, the
\* failing step as current_step_id)
C29_ExecuteNeverRaises ==
    "request" \in DOMAIN last =>
        /\ last.exc = NoExc
        /\ last.resp # None


\* C30: whenever execute returns plan_completed = true, every step_id of
\* the request's plan is in the session's completed_steps, whatever calls
\* were made on the session before
C30_PlanCompletedMeansAllSteps ==
    (ExecuteReturned /\ last.resp.some.plan_completed) =>
        \A i \in 1..Len(last.request.plan.steps) :
            last.request.plan.steps[i].step_id \in Range(last.after.completed_steps)


\* the steps of the plans of the requests
ExecutorSteps ==
    UNION {Range(action_plan.steps) : action_plan \in ExecutorPlans}

\* the step of the plans that has the id
StepOfId(step_id) == CHOOSE step \in ExecutorSteps : step.step_id = step_id

\* C31: a step is added to completed_steps only when it is eligible at
\* that moment: it is not yet in completed_steps (the list never holds a
\* step_id twice) and all its dependencies are already in completed_steps
C31_CompletedOnlyWhenEligible ==
    \A s \in Sessions :
        execution_context[s] # None =>
            \A i \in 1..Len(execution_context[s].completed_steps) :
                /\ \A j \in 1..(i - 1) :
                       execution_context[s].completed_steps[j]
                           # execution_context[s].completed_steps[i]
                /\ \A dep \in StepOfId(execution_context[s].completed_steps[i]).dependencies :
                       \E j \in 1..(i - 1) : execution_context[s].completed_steps[j] = dep


\* C32: the plan_id stored in a session's execution context is that of the
\* plan most recently executed for the session, and the completed_steps of
\* an earlier plan are not carried into a new plan
C32_ContextFollowsPlan ==
    ExecuteReturned =>
        /\ execution_context[last.session].plan_id = last.request.plan.plan_id
        /\ \A i \in 1..Len(execution_context[last.session].completed_steps) :
               execution_context[last.session].completed_steps[i].plan_id
                   = last.request.plan.plan_id


(***************************************************************************)
(* SpecPlanner: BookingPlanner.plan called once on each modelled analysis  *)
(* and query.  last records the call: the input, what the try block did    *)
(* (the plan the template synthesized, the exception) and the response.    *)
(***************************************************************************)
PlannerInit ==
    /\ PureIdle
    /\ RouterIdle
    /\ AgentIdle
    /\ OrchIdle

\* booking_planner.plan(request)
CallPlan ==
    /\ last = None
    /\ \E input \in PlannerInputs :
           last' = [op |-> "plan", input |-> input,
                    body |-> PlanBody("booking", input),
                    response |-> plan("booking", input).response]
    /\ UNCHANGED <<local_states, local_cache, bookings, resetTasks, history>>
    /\ UNCHANGED <<pureVars, routerVars, orchVars>>

PlannerNext == CallPlan

SpecPlanner == PlannerInit /\ [][PlannerNext]_vars

\* the explicit requirements of the query hold the restaurant name, the
\* date, the time and the party size
AllDetails(explicit_requirements) ==
    /\ explicit_requirements.kind = "dict"
    /\ explicit_requirements.has_restaurant
    /\ explicit_requirements.date
    /\ explicit_requirements.time
    /\ explicit_requirements.party_size

\* the scenario of the plan the claim assigns to the input
SpecifiedScenario(input) ==
    IF AllDetails(input.analysis.explicit_requirements) THEN "specific_with_details"
    ELSE IF input.analysis.explicit_requirements.has_restaurant THEN "specific_no_details"
    ELSE IF input.kw \in {"search", "book"} THEN "search_and_book"
    ELSE "clarification"

\* C36: the plan with details is chosen only when restaurant name, date,
\* time and party size are all in explicit_requirements; a name with a
\* detail missing gives the details-missing plan; no name and a search or
\* booking keyword the general-search plan; anything else the clarification
\* plan, with confidence 0.3
C36_ScenarioSelection ==
    ("body" \in DOMAIN last /\ last.body.synthesized # None) =>
        /\ last.body.synthesized.some.scenario = SpecifiedScenario(last.input)
        /\ ( /\ last.body.exc = NoExc
             /\ last.response.plan = last.body.synthesized.some
             /\ last.response.plan.scenario = "clarification" )
               => last.response.confidence = 30


\* C38: after reset_state(s), get_state(s) is a fresh BookingState
\* whatever the session stored before, and a second reset_state(s)
\* changes nothing, also when the session had no stored state
C38_ResetIsCleanAndIdempotent ==
    ("op" \in DOMAIN last /\ last.op = "reset_state") =>
        /\ get_state(StoreWorld(last.session), last.session) = BookingState(last.session)
        /\ reset_state(StoreWorld(last.session), last.session) = StoreWorld(last.session)
        /\ reset_state(reset_state(World(last.before, local_cache, 0, bookings, <<>>,
                                         resetTasks[last.session]), last.session),
                       last.session)
               = StoreWorld(last.session)

\* reset_state on a session whose stored state was well into a booking
C38_Witness ==
    /\ "op" \in DOMAIN last
    /\ last.op = "reset_state"
    /\ last.before # None
    /\ last.before.step = "confirmation"
    /\ last.before.guest_count # None
    /\ last.before.user_name # None

(***************************************************************************)
(* SpecSessions: two sessions served by the same state manager, agent and  *)
(* executor, their operations interleaved in any order: state-manager      *)
(* calls, agent turns at the start of a conversation and after a step      *)
(* without a handler, and the first executor call of a session.            *)
(***************************************************************************)
TwoSessions == {"s1", "s2"}

SessionsInit ==
    /\ PureIdle
    /\ RouterIdle
    /\ oState = None
    /\ oResult = [s \in Sessions |-> None]
    /\ execution_context = [s \in TwoSessions |-> None]
    /\ local_states = [s \in TwoSessions |-> None]
    /\ local_cache \in {<<>>, Catalog}
    /\ bookings = 0
    /\ resetTasks = [s \in TwoSessions |-> 0]
    /\ history = [s \in TwoSessions |-> <<>>]
    /\ last = None

\* state_manager.update_state(s, **updates)
SessionUpdateState(s) ==
    /\ \E updates \in {[step |-> "completed"], [guest_count |-> Some(4)]} :
           /\ local_states' = [local_states EXCEPT
                                  ![s] = update_state(StoreWorld(s), s, updates).st]
           /\ last' = [op |-> "update_state", session |-> s, updates |-> updates,
                       result |-> local_states'[s]]
    /\ UNCHANGED <<local_cache, bookings, resetTasks, history>>
    /\ UNCHANGED <<pureVars, routerVars, orchVars>>

\* the first booking_executor.execute(request) of a session
SessionExecute(s) ==
    /\ execution_context[s] = None
    /\ \E action_plan \in ExecutorPlans, fails \in ExecuteFetchFailures :
           ExecuteCalled(s, ExecutorRequest(action_plan, None, None), FALSE,
               booking_execute(World(local_states[s], local_cache, fails, bookings, <<>>,
                                     resetTasks[s]),
                               s, execution_context[s],
                               ExecutorRequest(action_plan, None, None)))

\* booking_agent.process(request) at the initial step or at a step that
\* has no handler, while the recorded conversation of the session is
\* empty; the user names no restaurant, or the first one of the catalog
SessionTurn(s) ==
    /\ StepOf(s) \in {"initial", "completed"}
    /\ history[s] = <<>>
    /\ \E input \in {[name |-> None], [name |-> Some(<<80, 50>>)]},
          fails \in ExecuteFetchFailures : Turn(s, input, fails)

SessionsNext ==
    \E s \in TwoSessions :
        \/ CallGetState(s)
        \/ SessionUpdateState(s)
        \/ CallResetState(s)
        \/ SessionTurn(s)
        \/ SessionExecute(s)

SpecSessions == SessionsInit /\ [][SessionsNext]_vars

\* C37: an agent turn, an executor call or a state-manager operation of
\* one session never changes the stored BookingState or the execution
\* context of another session
C37_SessionsIsolated ==
    [][\A b \in TwoSessions :
          last'.session # b =>
              /\ local_states'[b] = local_states[b]
              /\ execution_context'[b] = execution_context[b]]_vars

\* an executor call of one session while the other session has a stored
\* state and an execution context
C37_Witness ==
    /\ "request" \in DOMAIN last
    /\ last.session = "s1"
    /\ local_states["s1"] # None
    /\ execution_context["s1"] # None
    /\ local_states["s2"] # None
    /\ local_states["s2"].step = "restaurant_confirmation"
    /\ execution_context["s2"] # None

=============================================================================
